---- MODULE Spec2Model ----
(***************************************************************************)
(* A model of the SEO audit pipeline of seo_app: the single-page audit     *)
(* (views/audit_views.py), the site crawl orchestrator                     *)
(* (services/sitemap_crawler.py), the two LLM suggestion strategies         *)
(* (services/analyzer_gemini.py, services/analyzer_llm.py), the rule-based  *)
(* strategy (services/analyzer_suggestions.py) and the persisted records    *)
(* (models.py).                                                             *)
(***************************************************************************)
EXTENDS Integers, Sequences, FiniteSets, TLC

(***************************************************************************)
(* Bounds of the model.                                                     *)
(***************************************************************************)
MaxAnalyses == 2
MaxDay == 1
MaxPagesArg == 2

(***************************************************************************)
(* Small helpers.                                                           *)
(***************************************************************************)
Range(s) == {s[i] : i \in 1..Len(s)}

Min(a, b) == IF a <= b THEN a ELSE b

Max(a, b) == IF a >= b THEN a ELSE b

Take(s, n) == SubSeq(s, 1, Min(Len(s), Max(n, 0)))

Contains(s, x) == \E i \in 1..Len(s) : s[i] = x

(***************************************************************************)
(* The LLM strategy: generate_suggestions of analyzer_gemini.py and of      *)
(* analyzer_llm.py.                                                         *)
(***************************************************************************)
RequiredKeys ==
    {"improved_title", "improved_meta_description", "improved_h1",
     "seo_summary", "suggestions"}

max_retries == 1

KeyChoices ==
    {RequiredKeys, RequiredKeys \ {"suggestions"}, {"suggestions"}, {}}

\* What json.loads can give back for the provider's text.
JsonDicts ==
    {[type |-> "dict", keys |-> k, sugg |-> s] :
        k \in KeyChoices, s \in {"list", "scalar"}}

JsonValues ==
    JsonDicts \cup {[type |-> "null"], [type |-> "list"], [type |-> "string"]}

\* One call of the provider: it raises, or it returns a text. The text is
\* valid JSON as a whole ("json"), a JSON object inside prose ("wrapped"), an
\* object that parses once ' is replaced by " ("quoted"), or neither.
ProviderOutcomes ==
    {[kind |-> "error"], [kind |-> "text", form |-> "garbage"]}
    \cup {[kind |-> "text", form |-> "json", value |-> v] : v \in JsonValues}
    \cup {[kind |-> "text", form |-> f, value |-> v] :
            f \in {"wrapped", "quoted"}, v \in JsonDicts}

None == [type |-> "None"]

_extract_json_from_text(text) ==
    IF text.form = "garbage" THEN None
    ELSE IF text.value.type = "null" THEN None
    ELSE text.value

\* The result of one invocation, with the number of provider calls and of
\* backoff waits it made and the order in which it made them.
Raised(calls, sleeps, log) ==
    [kind |-> "raised", calls |-> calls, sleeps |-> sleeps, log |-> log]

TaggedFailure(calls, sleeps, log) ==
    [kind |-> "failure", calls |-> calls, sleeps |-> sleeps, log |-> log]

Backfilled(pj, calls, sleeps, log) ==
    [kind |-> "dict",
     keys |-> pj.keys \cup {k \in RequiredKeys : k \notin pj.keys},
     sugg |-> IF "suggestions" \notin pj.keys THEN "empty_list"
              ELSE IF pj.sugg = "list" THEN "list"
              ELSE "singleton_list",
     calls |-> calls, sleeps |-> sleeps, log |-> log]

\* Attempts that also start over, without a wait, when the object lacks a
\* required key.
RECURSIVE AttemptsUntilComplete(_, _, _, _, _)
AttemptsUntilComplete(outcomes, attempt, calls, sleeps, log) ==
    IF attempt > max_retries
    THEN TaggedFailure(calls, sleeps, log)
    ELSE
      LET o == outcomes[attempt + 1]
          log1 == Append(log, o.kind)
          retry == AttemptsUntilComplete(outcomes, attempt + 1, calls + 1,
                                         sleeps + 1, Append(log1, "sleep"))
          again == AttemptsUntilComplete(outcomes, attempt + 1, calls + 1,
                                         sleeps, log1)
          giveUp == TaggedFailure(calls + 1, sleeps, log1)
      IN  IF o.kind = "error"
          THEN IF attempt < max_retries THEN retry ELSE giveUp
          ELSE LET pj == _extract_json_from_text(o)
               IN  IF pj = None \/ pj.type # "dict"
                   THEN IF attempt < max_retries THEN retry ELSE giveUp
                   ELSE IF pj.keys # RequiredKeys /\ attempt < max_retries
                   THEN again
                   ELSE Backfilled(pj, calls + 1, sleeps, log1)

RECURSIVE Attempts(_, _, _, _, _)
Attempts(outcomes, attempt, calls, sleeps, log) ==

    IF attempt > max_retries
    THEN TaggedFailure(calls, sleeps, log)
    ELSE
      LET o == outcomes[attempt + 1]
          log1 == Append(log, o.kind)
          retry == Attempts(outcomes, attempt + 1, calls + 1, sleeps + 1,
                            Append(log1, "sleep"))
          giveUp == TaggedFailure(calls + 1, sleeps, log1)
      IN  IF o.kind = "error"
          THEN IF attempt < max_retries THEN retry ELSE giveUp
          ELSE LET pj == _extract_json_from_text(o)
               IN  IF pj = None
                   THEN IF attempt < max_retries THEN retry ELSE giveUp
                   ELSE IF pj.type # "dict"
                   THEN IF attempt < max_retries THEN retry ELSE giveUp
                   ELSE Backfilled(pj, calls + 1, sleeps, log1)

\* analyzer_gemini.generate_suggestions
generate_suggestions_gemini(hasKey, outcomes) ==
    IF ~hasKey THEN Raised(0, 0, <<>>)
    ELSE Attempts(outcomes, 0, 0, 0, <<>>)

\* analyzer_llm.generate_suggestions
generate_suggestions_openai(hasKey, outcomes) ==
    IF ~hasKey THEN TaggedFailure(0, 0, <<>>)
    ELSE Attempts(outcomes, 0, 0, 0, <<>>)

generate_suggestions(impl, hasKey, outcomes) ==
    IF impl = "gemini" THEN generate_suggestions_gemini(hasKey, outcomes)
    ELSE generate_suggestions_openai(hasKey, outcomes)

IsList(x) == x \in {"list", "empty_list", "singleton_list"}

(***************************************************************************)
(* URLs. A URL is a string; what the code asks of a URL's text is given as  *)
(* the set of the model's URLs of which it is true.                         *)
(***************************************************************************)
Root == "https://ex.com"

PageA == "https://ex.com/a"

PageB == "https://ex.com/b"

PageC == "https://ex.com/c"

PageD == "https://ex.com/d"

\* What a caller may pass as `url`; "ex.com/a" has no scheme.
InputURLs == {"ex.com/a", PageA, PageB}

\* Where a fetch can end after redirects (resp.url).
FinalURLs == {PageA, PageB}

HasScheme(u) == u # "ex.com/a"

(***************************************************************************)
(* services/crawler.py                                                      *)
(***************************************************************************)
\* fetch_html: the URL requested after scheme normalisation.
NormalizeUrl(u) == IF HasScheme(u) THEN u ELSE "https://" \o u

\* The content of a page as parse_page and the advanced checks read it off
\* the HTML and the final URL. For parse_page: the lengths of the cleaned
\* title and meta description, the number of H1 elements, the word count of
\* the main text and, per image, whether it has a non-blank alt. For the
\* advanced checks: whether the URL is https, the viewport meta tag, whether
\* the body text is over 100 characters, per ld+json script what its .string
\* is ("typed": it names a known schema type, "other": it does not, "none":
\* the script has no single string), the robots noindex, the number of
\* scripts, the number of links the check counts as broken, the Open Graph
\* triple, the Twitter card, and the shape of the main text.
ThinPage ==
    [title_len |-> 4, meta_len |-> 0, h1 |-> 1, word_count |-> 2,
     images |-> <<>>, https |-> TRUE, viewport |-> FALSE,
     body_long |-> FALSE, schemas |-> <<>>, noindex |-> FALSE,
     scripts |-> 2, broken_count |-> 0, og |-> TRUE, twitter |-> TRUE,
     text |-> "short"]

GoodDoc ==
    [title_len |-> 45, meta_len |-> 120, h1 |-> 2,
     word_count |-> 550, images |-> <<TRUE, FALSE, TRUE>>,
     https |-> TRUE, viewport |-> TRUE,
     body_long |-> TRUE, schemas |-> <<"typed">>, noindex |-> FALSE,
     scripts |-> 2, broken_count |-> 0, og |-> TRUE, twitter |-> TRUE,
     text |-> "plain"]

\* The site serves one document per URL.
Web == [u \in FinalURLs |-> IF u = PageA THEN ThinPage ELSE GoodDoc]

\* fetch_html's outcomes: a failure (any RequestException), or a success
\* with the final URL (a redirect may lead anywhere) and the body.
FetchOutcomes(u) ==
    {[ok |-> FALSE, url |-> NormalizeUrl(u), status_code |-> 0,
      error |-> "RequestException"]}
    \cup {[ok |-> TRUE, url |-> f, status_code |-> 200, html |-> Web[f]] :
            f \in FinalURLs}

\* PageA after its owner gave it a title and a meta description.
EditedPage == [ThinPage EXCEPT !.title_len = 45, !.meta_len = 120]

\* fetch_html for an audit: between two audits PageA may have been edited.
FetchOutcomesNow(u) ==
    FetchOutcomes(u)
    \cup {[ok |-> TRUE, url |-> PageA, status_code |-> 200,
           html |-> EditedPage]}

\* Lines 102-126: the first-pass issues of parse_page, each a dict of a code
\* and a message.
first_pass_issues(html) ==
    LET without_alt ==
            Cardinality({k \in 1..Len(html.images) : ~html.images[k]})
        issue(code, message) == <<[code |-> code, message |-> message]>>
    IN  (IF html.title_len = 0
         THEN issue("missing_title", "Title tag is missing.")
         ELSE (IF html.title_len < 20
               THEN issue("short_title", "Title is very short.") ELSE <<>>)
              \o (IF html.title_len > 80
                  THEN issue("long_title",
                             "Title is very long (might be truncated).")
                  ELSE <<>>))
        \o (IF html.meta_len = 0
            THEN issue("missing_meta_description",
                       "Meta description is missing.")
            ELSE (IF html.meta_len < 50
                  THEN issue("short_meta", "Meta description is very short.")
                  ELSE <<>>)
                 \o (IF html.meta_len > 320
                     THEN issue("long_meta", "Meta description is very long.")
                     ELSE <<>>))
        \o (IF html.h1 = 0 THEN issue("missing_h1", "No H1 found.")
            ELSE IF html.h1 > 1
            THEN issue("multiple_h1", "Multiple H1 tags found ("
                                         \o ToString(html.h1) \o ").")
            ELSE <<>>)
        \o (IF html.word_count < 200
            THEN issue("thin_content",
                       "Low word count (" \o ToString(html.word_count)
                          \o "). Consider expanding content.")
            ELSE <<>>)
        \o (IF without_alt > 0
            THEN issue("missing_image_alt",
                       ToString(without_alt) \o " images missing alt text.")
            ELSE <<>>)

parse_page(html) ==
    [title_len |-> html.title_len, meta_len |-> html.meta_len,
     h1 |-> html.h1, word_count |-> html.word_count, images |-> html.images,
     issues |-> first_pass_issues(html)]

\* A str held in a list that can also hold dicts.
PyStr(s) == [str |-> s]

\* audit_views.py, lines 95-99: what parsed["issues"] is bound to when the
\* suggestions are generated.
parsed_issues(parsed, issues, advanced_issues) ==
    LET all_issues == issues \o advanced_issues
    IN  [k \in 1..Len(all_issues) |-> PyStr(all_issues[k])]

(***************************************************************************)
(* services/analyzer_rules.py                                               *)
(***************************************************************************)
\* A title of the right length worth 40 points.
score_title_heavy(n) ==
    IF n = 0 THEN [points |-> 0, issues |-> <<"Title missing">>]
    ELSE IF 30 <= n /\ n <= 60 THEN [points |-> 40, issues |-> <<>>]
    ELSE IF n < 30 THEN [points |-> 12, issues |-> <<"Title too short">>]
    ELSE [points |-> 15, issues |-> <<"Title too long">>]

score_title(n) ==
    IF n = 0 THEN [points |-> 0, issues |-> <<"Title missing">>]
    ELSE IF 30 <= n /\ n <= 60 THEN [points |-> 20, issues |-> <<>>]
    ELSE IF n < 30 THEN [points |-> 12, issues |-> <<"Title too short">>]
    ELSE [points |-> 15, issues |-> <<"Title too long">>]

score_meta(n) ==
    IF n = 0 THEN [points |-> 0, issues |-> <<"Meta description missing">>]
    ELSE IF 50 <= n /\ n <= 160 THEN [points |-> 20, issues |-> <<>>]
    ELSE IF n < 50 THEN [points |-> 10, issues |-> <<"Meta description short">>]
    ELSE [points |-> 14, issues |-> <<"Meta description long">>]

score_h1(n) ==
    IF n = 0 THEN [points |-> 0, issues |-> <<"Missing H1">>]
    ELSE IF n = 1 THEN [points |-> 15, issues |-> <<>>]
    ELSE [points |-> 7,
          issues |-> <<"Multiple H1 tags (" \o ToString(n) \o ")">>]

\* int(10 + (wc - 300) / 500 * 10) for 300 <= wc < 800
score_word_count(wc) ==
    IF wc >= 800 THEN [points |-> 20, issues |-> <<>>]
    ELSE IF wc >= 300
    THEN [points |-> 10 + ((wc - 300) * 10) \div 500, issues |-> <<>>]
    ELSE [points |-> 5,
          issues |-> <<"Thin content (" \o ToString(wc) \o " words)">>]

score_images(images) ==
    IF images = <<>> THEN [points |-> 5, issues |-> <<"No images present">>]
    ELSE LET total == Len(images)
             with_alt == Cardinality({i \in 1..total : images[i]})
         IN  [points |-> (with_alt * 10) \div total,
              issues |-> IF with_alt < total
                         THEN <<ToString(total - with_alt)
                                  \o " images missing alt">>
                         ELSE <<>>]

run_all_rules(parsed) ==
    LET t == score_title(parsed.title_len)
        m == score_meta(parsed.meta_len)
        h == score_h1(parsed.h1)
        w == score_word_count(parsed.word_count)
        g == score_images(parsed.images)
        total == t.points + m.points + h.points + w.points + g.points
    IN  [score |-> Max(0, Min(100, total)),
         breakdown |->
            <<[name |-> "title", points |-> t.points, issues |-> t.issues],
              [name |-> "meta_description", points |-> m.points,
               issues |-> m.issues],
              [name |-> "h1", points |-> h.points, issues |-> h.issues],
              [name |-> "content", points |-> w.points, issues |-> w.issues],
              [name |-> "images", points |-> g.points, issues |-> g.issues]>>,
         issues |-> t.issues \o m.issues \o h.issues \o w.issues \o g.issues]

(***************************************************************************)
(* services/analyzer_advanced.py                                            *)
(***************************************************************************)
check_mobile_usability(html) ==
    [points |-> Max(0, 20 - (IF html.viewport THEN 0 ELSE 5)
                          - (IF html.body_long THEN 0 ELSE 5)),
     issues |->
        (IF html.viewport THEN <<>>
         ELSE <<"Missing viewport meta tag for mobile optimization">>)
        \o (IF html.body_long THEN <<>>
            ELSE <<"Very little text content for mobile users">>)]

\* Line 73, `st in schema.string`, is a TypeError when .string is None.
SchemaRaises(html) == Contains(html.schemas, "none")

check_schema_markup(html) ==
    IF html.schemas = <<>>
    THEN [points |-> Max(0, 15 - 10),
          issues |-> <<"Missing schema.org structured data markup">>]
    ELSE IF Contains(html.schemas, "typed")
    THEN [points |-> Max(0, 15), issues |-> <<>>]
    ELSE [points |-> Max(0, 15 - 5),
          issues |-> <<"Schema markup found but may not be optimized">>]

check_ssl_security(html) ==
    IF html.https THEN [points |-> 10, issues |-> <<>>]
    ELSE [points |-> 0,
          issues |-> <<"Website not using HTTPS (SSL certificate)">>]

many_scripts == 20

\* The noindex directive taking ten points like a missing H1.
check_crawlability_deducting(html) ==
    LET p1 == IF html.noindex THEN 15 - 10 ELSE 15
        p2 == IF html.scripts > many_scripts THEN p1 - 5 ELSE p1
        p3 == IF html.h1 = 0 THEN p2 - 10
              ELSE IF html.h1 > 1 THEN p2 - 5 ELSE p2
    IN  [points |-> Max(0, p3), issues |-> <<>>]

check_crawlability(html) ==

    LET p1 == IF html.noindex THEN 0 ELSE 15
        p2 == IF html.scripts > many_scripts THEN p1 - 5 ELSE p1
        p3 == IF html.h1 = 0 THEN p2 - 10
              ELSE IF html.h1 > 1 THEN p2 - 5 ELSE p2
    IN  [points |-> Max(0, p3),
         issues |->
            (IF html.noindex
             THEN <<"Page has 'noindex' directive - won't appear in search results">>
             ELSE <<>>)
            \o (IF html.scripts > many_scripts
                THEN <<"High number of scripts - may slow crawling">>
                ELSE <<>>)
            \o (IF html.h1 = 0
                THEN <<"No H1 tag found - critical for crawlability">>
                ELSE IF html.h1 > 1
                THEN <<"Multiple H1 tags (" \o ToString(html.h1)
                         \o ") - crawlers expect one main H1">>
                ELSE <<>>)]

check_broken_links(html) ==
    IF html.broken_count > 0
    THEN [points |-> Max(0, 10 - Min(10, html.broken_count * 2)),
          issues |-> <<"Found " \o ToString(html.broken_count)
                         \o " potentially broken internal links">>]
    ELSE [points |-> Max(0, 10), issues |-> <<>>]

check_open_graph_twitter_cards(html) ==
    [points |-> Max(0, 10 - (IF html.og THEN 0 ELSE 5)
                          - (IF html.twitter THEN 0 ELSE 5)),
     issues |->
        (IF html.og THEN <<>>
         ELSE <<"Missing Open Graph tags for social media sharing">>)
        \o (IF html.twitter THEN <<>>
            ELSE <<"Missing Twitter Card metadata">>)]

\* The average sentence length the model's long-sentence texts have.
LongAverage == 30

check_readability(text) ==
    IF text = "short"
    THEN [points |-> 0,
          issues |-> <<"Content is too short for good readability scoring">>]
    ELSE IF text = "no_sentences"
    THEN [points |-> 0, issues |-> <<"Unable to parse sentences">>]
    ELSE LET long == text \in {"long_sentences", "long_and_choppy"}
             choppy == text \in {"short_paragraphs", "long_and_choppy"}
         IN  [points |-> Max(0, 10 - (IF long THEN 5 ELSE 0)
                                   - (IF choppy THEN 5 ELSE 0)),
              issues |->
                 (IF long
                  THEN <<"Sentences are too long (avg " \o ToString(LongAverage)
                           \o " words) - reduce for better readability">>
                  ELSE <<>>)
                 \o (IF choppy
                     THEN <<"Many very short paragraphs - structure content better">>
                     ELSE <<>>)]

RECURSIVE SumPoints(_)
SumPoints(breakdown) ==
    IF breakdown = <<>> THEN 0
    ELSE Head(breakdown).points + SumPoints(Tail(breakdown))

RECURSIVE AllIssues(_)
AllIssues(breakdown) ==
    IF breakdown = <<>> THEN <<>>
    ELSE Head(breakdown).issues \o AllIssues(Tail(breakdown))

Entry(name, res) ==
    [name |-> name, points |-> res.points, issues |-> res.issues]

\* run_advanced_rules: "raised" when a check raises, which nothing in it
\* catches.
run_advanced_rules(html) ==
    IF SchemaRaises(html) THEN [kind |-> "raised"]
    ELSE LET breakdown ==
                 <<Entry("mobile_usability", check_mobile_usability(html)),
                   Entry("schema_markup", check_schema_markup(html)),
                   Entry("ssl_security", check_ssl_security(html)),
                   Entry("crawlability", check_crawlability(html)),
                   Entry("broken_links", check_broken_links(html)),
                   Entry("social_tags",
                         check_open_graph_twitter_cards(html)),
                   Entry("readability", check_readability(html.text))>>
         IN  [kind |-> "ok",
              score |-> Max(0, Min(100, SumPoints(breakdown))),
              breakdown |-> breakdown,
              issues |-> AllIssues(breakdown)]

(***************************************************************************)
(* views/audit_views.py: the score combiner.                                *)
(***************************************************************************)
\* The advanced score weighted seven tenths.
CombinedScoreHeavy(score, advanced_score) ==
    (4 * score + 7 * advanced_score) \div 10

\* int((score * 0.4) + (advanced_score * 0.6)) in IEEE double arithmetic:
\* for these pairs the sum falls just short of the next integer.
FloatShort ==
    {<<1, 6>>, <<1, 31>>, <<1, 36>>, <<1, 41>>, <<1, 46>>, <<1, 51>>,
     <<1, 96>>, <<2, 12>>, <<2, 57>>, <<2, 62>>, <<2, 67>>, <<2, 72>>,
     <<2, 77>>, <<2, 82>>, <<2, 87>>, <<2, 92>>, <<2, 97>>, <<3, 48>>,
     <<4, 24>>, <<6, 96>>, <<7, 57>>, <<7, 62>>, <<7, 67>>, <<7, 72>>,
     <<7, 77>>, <<7, 82>>, <<7, 87>>, <<7, 92>>, <<7, 97>>, <<8, 48>>,
     <<11, 96>>, <<16, 96>>}

CombinedScore(score, advanced_score) ==
    LET exact == (4 * score + 6 * advanced_score) \div 10
    IN  IF <<score, advanced_score>> \in FloatShort THEN exact - 1 ELSE exact

(***************************************************************************)
(* services/sitemap_crawler.py: discovery.                                  *)
(***************************************************************************)
SmMain == "https://ex.com/sitemap.xml"

SmIndex == "https://ex.com/sitemap_index.xml"

SmDir == "https://ex.com/sitemaps/sitemap.xml"

Sm1 == "https://ex.com/sitemap1.xml"

\* A nested sitemap whose URL does not end in ".xml".
SmGz == "https://ex.com/sitemap.xml.gz"

\* A sitemap named in robots.txt with capitals, and its lower-cased text.
SmNews == "https://ex.com/Sitemap-News.xml"

SmNewsLower == "https://ex.com/sitemap-news.xml"

External == "https://other.com/x"

PageAFragment == "https://ex.com/a#top"

\* str.lower()
Lower(u) == IF u = SmNews THEN SmNewsLower ELSE u

\* url.endswith('.xml') and 'sitemap' in url.lower()
LooksLikeSitemap(u) ==
    u \in {SmMain, SmIndex, SmDir, Sm1, SmNews, SmNewsLower}

\* _get_domain(url) == _get_domain(base_url), for base_url = Root
SameDomain(u) == u # External

\* abs_url.split("#")[0]
StripFragment(u) == IF u = PageAFragment THEN PageA ELSE u

common_paths == <<SmMain, SmIndex, SmDir, Sm1>>

\* A sitemap document as the server gives it: no answer or a non-200
\* status ("fail"), a body that is not XML ("malformed"), or an XML document
\* with the texts of its <sitemap><loc> and of its <url><loc> elements ("" for
\* an element without text).
FailDoc == [status |-> "fail"]

MalformedDoc == [status |-> "malformed"]

XmlDoc(sitemaps, urls) ==
    [status |-> "xml", sitemaps |-> sitemaps, urls |-> urls]

RECURSIVE NonEmptyTexts(_)
NonEmptyTexts(locs) ==
    IF locs = <<>> THEN <<>>
    ELSE IF Head(locs) # "" THEN <<Head(locs)>> \o NonEmptyTexts(Tail(locs))
         ELSE NonEmptyTexts(Tail(locs))

_parse_sitemap_xml(doc) ==
    IF doc.status # "xml" THEN <<>>
    ELSE IF doc.sitemaps # <<>> THEN NonEmptyTexts(doc.sitemaps)
    ELSE NonEmptyTexts(doc.urls)

\* robots.txt: whether it is served with status 200, and the URLs of its
\* "Sitemap:" lines in file order.
RECURSIVE RobotsSitemaps(_, _)
RobotsSitemaps(lines, sitemaps) ==
    IF lines = <<>> THEN sitemaps
    ELSE LET sitemap_url == Lower(Head(lines))
         IN  RobotsSitemaps(Tail(lines),
                IF sitemap_url # "" /\ ~Contains(sitemaps, sitemap_url)
                THEN Append(sitemaps, sitemap_url) ELSE sitemaps)

RECURSIVE AddCommon(_, _)
AddCommon(paths, sitemaps) ==
    IF paths = <<>> THEN sitemaps
    ELSE AddCommon(Tail(paths),
            IF ~Contains(sitemaps, Head(paths))
            THEN Append(sitemaps, Head(paths)) ELSE sitemaps)

_find_sitemaps(site) ==
    AddCommon(common_paths,
              IF ~site.robots.ok THEN <<>>
              ELSE RobotsSitemaps(site.robots.sitemaps, <<>>))

DocAt(site, u) == IF u \in DOMAIN site.docs THEN site.docs[u] ELSE FailDoc

\* Lines 138-147: the URLs of one parsed document, in order.
RECURSIVE ClassifyUrls(_, _, _)
ClassifyUrls(urls, st, max_urls) ==
    IF urls = <<>> THEN st
    ELSE LET url == Head(urls)
         IN  IF LooksLikeSitemap(url)
             THEN ClassifyUrls(Tail(urls),
                     [st EXCEPT !.to_process = Append(@, url),
                                !.enqueued = @ \cup {url}], max_urls)
             ELSE IF Contains(st.all_urls, url)
             THEN ClassifyUrls(Tail(urls), st, max_urls)
             ELSE LET st1 == [st EXCEPT !.all_urls = Append(@, url)]
                  IN  IF Len(st1.all_urls) >= max_urls THEN st1
                      ELSE ClassifyUrls(Tail(urls), st1, max_urls)

\* Line 125
FetchAllContinues(st, max_urls) ==
    st.to_process # <<>> /\ Len(st.all_urls) < max_urls

\* A turn that leaves a sitemap that did not answer at the head of the
\* queue.
FetchAllStepWaiting(site, st, max_urls) ==
    LET sitemap_url == Head(st.to_process)
        popped == [st EXCEPT !.to_process = Tail(@)]
    IN  IF sitemap_url \in st.visited_sitemaps THEN popped
        ELSE LET doc == DocAt(site, sitemap_url)
                 asked == [popped EXCEPT
                             !.visited_sitemaps = @ \cup {sitemap_url},
                             !.requests = Append(@, sitemap_url),
                             !.index_entries =
                                 IF doc.status = "xml"
                                 THEN @ \cup (Range(doc.sitemaps) \ {""})
                                 ELSE @]
             IN  IF doc.status = "fail" THEN st
                 ELSE ClassifyUrls(_parse_sitemap_xml(doc), asked, max_urls)

\* A turn that asks for a sitemap whether or not it was asked for before.
FetchAllStepRevisiting(site, st, max_urls) ==
    LET sitemap_url == Head(st.to_process)
        popped == [st EXCEPT !.to_process = Tail(@)]
        doc == DocAt(site, sitemap_url)
        asked == [popped EXCEPT
                    !.visited_sitemaps = @ \cup {sitemap_url},
                    !.requests = Append(@, sitemap_url)]
    IN  IF doc.status = "fail" THEN asked
        ELSE ClassifyUrls(_parse_sitemap_xml(doc), asked, max_urls)

\* A turn in which a document that gives nothing ends the traversal: the

\* try of lines 132-149 around the loop instead of inside it.
FetchAllStepStopping(site, st, max_urls) ==
    LET sitemap_url == Head(st.to_process)
        popped == [st EXCEPT !.to_process = Tail(@)]
    IN  IF sitemap_url \in st.visited_sitemaps THEN popped
        ELSE LET doc == DocAt(site, sitemap_url)
                 asked == [popped EXCEPT
                             !.visited_sitemaps = @ \cup {sitemap_url},
                             !.requests = Append(@, sitemap_url),
                             !.index_entries =
                                 IF doc.status = "xml"
                                 THEN @ \cup (Range(doc.sitemaps) \ {""})
                                 ELSE @]
             IN  IF doc.status # "xml"
                 THEN [asked EXCEPT !.to_process = <<>>]
                 ELSE ClassifyUrls(_parse_sitemap_xml(doc), asked, max_urls)

\* Lines 126-149: one turn of the while loop.
FetchAllStep(site, st, max_urls) ==
    LET sitemap_url == Head(st.to_process)
        popped == [st EXCEPT !.to_process = Tail(@)]
    IN  IF sitemap_url \in st.visited_sitemaps THEN popped
        ELSE LET doc == DocAt(site, sitemap_url)
                 asked == [popped EXCEPT
                             !.visited_sitemaps = @ \cup {sitemap_url},
                             !.requests = Append(@, sitemap_url),
                             !.index_entries =
                                 IF doc.status = "xml"
                                 THEN @ \cup (Range(doc.sitemaps) \ {""})
                                 ELSE @]
             IN  IF doc.status = "fail" THEN asked
                 ELSE ClassifyUrls(_parse_sitemap_xml(doc), asked, max_urls)

FetchAllStart(sitemap_urls) ==
    [to_process |-> sitemap_urls, visited_sitemaps |-> {},
     all_urls |-> <<>>, requests |-> <<>>, index_entries |-> {},
     enqueued |-> {}]

RECURSIVE FetchAllLoop(_, _, _)
FetchAllLoop(site, st, max_urls) ==
    IF FetchAllContinues(st, max_urls)
    THEN FetchAllLoop(site, FetchAllStep(site, st, max_urls), max_urls)
    ELSE st

\* Line 151
FetchAllResult(st, max_urls) == Take(st.all_urls, max_urls)

_fetch_all_urls_from_sitemaps(site, sitemap_urls, max_urls) ==
    FetchAllResult(FetchAllLoop(site, FetchAllStart(sitemap_urls), max_urls),
                   max_urls)

\* The site's pages for the fallback crawler: per URL, whether the fetch
\* succeeds, the final URL and the hrefs of the page's links, made absolute.
PageAt(site, u) ==
    IF u \in DOMAIN site.html THEN site.html[u]
    ELSE [ok |-> FALSE, url |-> u, links |-> <<>>]

QueueUrls(queue) == {queue[i][1] : i \in 1..Len(queue)}

\* The links of a page queued whatever their domain.
RECURSIVE EnqueueLinksAnyDomain(_, _, _)
EnqueueLinksAnyDomain(links, st, depth) ==
    IF links = <<>> THEN st
    ELSE LET abs_url == Head(links)
             clean_url == StripFragment(abs_url)
         IN  IF clean_url \notin st.visited
                /\ clean_url \notin QueueUrls(st.queue)
             THEN EnqueueLinksAnyDomain(Tail(links),
                     [st EXCEPT !.queue = Append(@, <<clean_url, depth + 1>>)],
                     depth)
             ELSE EnqueueLinksAnyDomain(Tail(links), st, depth)

\* Lines 182-191: the links of one fetched page, in order.
RECURSIVE EnqueueLinks(_, _, _)
EnqueueLinks(links, st, depth) ==
    IF links = <<>> THEN st
    ELSE LET abs_url == Head(links)
             clean_url == StripFragment(abs_url)
         IN  IF SameDomain(abs_url)
                /\ clean_url \notin st.visited
                /\ clean_url \notin QueueUrls(st.queue)
             THEN EnqueueLinks(Tail(links),
                     [st EXCEPT !.queue = Append(@, <<clean_url, depth + 1>>)],
                     depth)
             ELSE EnqueueLinks(Tail(links), st, depth)

max_depth == 2

\* Line 165
BfsContinues(st, max_pages) ==
    st.queue # <<>> /\ Len(st.discovered_urls) < max_pages

\* Lines 166-194: one turn of the while loop.
BfsStep(site, st) ==
    LET url == Head(st.queue)[1]
        depth == Head(st.queue)[2]
        popped == [st EXCEPT !.queue = Tail(@)]
    IN  IF url \in st.visited \/ depth > max_depth THEN popped
        ELSE LET fetch_res == PageAt(site, NormalizeUrl(url))
                 asked == [popped EXCEPT
                             !.visited = @ \cup {url},
                             !.fetched = Append(@, <<url, depth>>)]
             IN  IF ~fetch_res.ok THEN asked
                 ELSE EnqueueLinks(fetch_res.links,
                         [asked EXCEPT
                            !.discovered_urls = Append(@, fetch_res.url)],
                         depth)

BfsStart(base_url) ==
    [queue |-> <<<<base_url, 0>>>>, visited |-> {},
     discovered_urls |-> <<>>, fetched |-> <<>>]

RECURSIVE BfsLoop(_, _, _)
BfsLoop(site, st, max_pages) ==
    IF BfsContinues(st, max_pages)
    THEN BfsLoop(site, BfsStep(site, st), max_pages)
    ELSE st

_crawl_site_bfs_fallback(site, base_url, max_pages) ==
    BfsLoop(site, BfsStart(base_url), max_pages).discovered_urls

bfs_cap == 50

\* The fallback crawler given max_pages itself.
BfsUncapped(max_pages) == max_pages

\* Line 223
BfsCap(max_pages) == Min(bfs_cap, max_pages)

\* The URLs the fallback crawler called fetch_html with, in order.
BfsFetches(site, base_url, max_pages) ==
    LET fetched == BfsLoop(site, BfsStart(base_url), max_pages).fetched
    IN  [k \in 1..Len(fetched) |-> NormalizeUrl(fetched[k][1])]

\* Lines 205-232: the page URLs of a crawl and where they came from, and the
\* calls of fetch_html made to find them.
Discover(site, max_pages) ==
    LET sitemap_urls == _find_sitemaps(site)
        from_sitemaps ==
            _fetch_all_urls_from_sitemaps(site, sitemap_urls, max_pages)
        from_bfs ==
            _crawl_site_bfs_fallback(site, Root, BfsCap(max_pages))
    IN  IF sitemap_urls = <<>>
        THEN [max_pages |-> max_pages, source |-> "no_sitemaps",
              page_urls |-> <<>>, fetches |-> <<>>]
        ELSE IF from_sitemaps # <<>>
        THEN [max_pages |-> max_pages, source |-> "sitemap",
              page_urls |-> from_sitemaps, fetches |-> <<>>]
        ELSE [max_pages |-> max_pages, source |-> "bfs",
              page_urls |-> from_bfs,
              fetches |-> BfsFetches(site, Root, BfsCap(max_pages))]

(***************************************************************************)
(* The sites the model crawls.                                              *)
(***************************************************************************)
SitemapDocs ==
    {FailDoc, MalformedDoc,
     XmlDoc(<<>>, <<>>),
     XmlDoc(<<>>, <<PageA, PageB>>),
     XmlDoc(<<>>, <<PageB, "", PageB, PageA>>),
     XmlDoc(<<>>, <<Sm1, PageA>>),
     XmlDoc(<<Sm1, SmGz>>, <<>>),
     XmlDoc(<<SmMain, "", Sm1>>, <<PageB>>)}

RobotsFiles ==
    {[ok |-> FALSE, sitemaps |-> <<>>],
     [ok |-> TRUE, sitemaps |-> <<>>],
     [ok |-> TRUE, sitemaps |-> <<SmNews, SmMain>>]}

GoodPage(u, links) == [ok |-> TRUE, url |-> u, links |-> links]

SiteGraphs ==
    {\* nothing answers
     [u \in {} |-> GoodPage(u, <<>>)],
     \* a root that links to two pages, one of which redirects to the other
     [u \in {Root, PageA, PageB} |->
        IF u = Root THEN GoodPage(Root, <<PageAFragment, External, PageB>>)
        ELSE IF u = PageA THEN GoodPage(PageB, <<Root>>)
        ELSE GoodPage(PageB, <<PageA>>)],
     \* a root that links to itself and to one page
     [u \in {Root, PageA} |->
        IF u = Root THEN GoodPage(Root, <<Root, PageA>>)
        ELSE GoodPage(PageA, <<PageB>>)]}

Sites ==
    {[robots |-> r, docs |-> d, html |-> g] :
        r \in RobotsFiles,
        d \in [{SmMain, Sm1} -> SitemapDocs]
              \cup [{SmNewsLower} -> SitemapDocs],
        g \in SiteGraphs}

MaxPagesArgs == 0..MaxPagesArg

\* A site of more pages than the fallback crawler's cap: a root that links to
\* each of them, and a sitemap that lists them.
BigCount == bfs_cap + 2

BigPages == [i \in 1..BigCount |-> "https://ex.com/p" \o ToString(i)]

BigGraph ==
    [u \in {Root} \cup Range(BigPages) |->
        IF u = Root THEN GoodPage(Root, BigPages) ELSE GoodPage(u, <<>>)]

BigSites ==
    {[robots |-> [ok |-> FALSE, sitemaps |-> <<>>],
      docs |-> [u \in {SmMain} |-> doc], html |-> BigGraph] :
        doc \in {FailDoc, XmlDoc(<<>>, BigPages)}}

\* A site without sitemaps whose pages form a chain of links four hops long.
DeepGraph ==
    [u \in {Root, PageA, PageB, PageC, PageD} |->
        IF u = Root THEN GoodPage(Root, <<PageA>>)
        ELSE IF u = PageA THEN GoodPage(PageA, <<External, PageB>>)
        ELSE IF u = PageB THEN GoodPage(PageB, <<PageC>>)
        ELSE IF u = PageC THEN GoodPage(PageC, <<PageD>>)
        ELSE GoodPage(PageD, <<>>)]

DeepSites ==
    {[robots |-> [ok |-> FALSE, sitemaps |-> <<>>],
      docs |-> [u \in {SmMain} |-> FailDoc], html |-> DeepGraph]}

\* The sites and the max_pages arguments of discovery on its own.
DiscoverSites == Sites \cup BigSites \cup DeepSites

DiscoverArgs == MaxPagesArgs \cup {bfs_cap + 1}

\* The sites of the crawls of the pipeline.
CrawlSites ==
    {site \in Sites :
        /\ site.robots.ok /\ site.robots.sitemaps = <<>>
        /\ DOMAIN site.docs = {SmMain, Sm1}
        /\ site.docs[Sm1] = FailDoc
        /\ site.docs[SmMain] \in
              {FailDoc, XmlDoc(<<>>, <<PageA, PageB>>),
               XmlDoc(<<>>, <<PageB, "", PageB, PageA>>)}}

DiscoveryResults ==
    {Discover(site, mp) : site \in CrawlSites, mp \in MaxPagesArgs}

(***************************************************************************)
(* services/analyzer_suggestions.py and the suggestion values. A suggestion *)
(* value is a dict: its keys, whether it holds "ok": False, and the         *)
(* strategy it came from.                                                   *)
(***************************************************************************)
EmptyDict == [origin |-> "none", keys |-> {}, okFalse |-> FALSE]

\* {"ok": False, "error": ...}
FailureDict(origin) ==
    [origin |-> origin, keys |-> {"ok", "error"}, okFalse |-> TRUE]

IsTaggedFailure(d) == d.okFalse /\ d.keys = {"ok", "error"}

Truthy(d) == d.keys # {}

generate_suggestions_from_issues ==
    [origin |-> "rule", keys |-> RequiredKeys, okFalse |-> FALSE]

\* {**llm_out, "fallback": True}
WithFallback(d) == [d EXCEPT !.keys = @ \cup {"fallback"}]

\* The dict an LLM invocation returned, as the caller holds it.
DictOf(r) ==
    IF r.kind = "failure" THEN FailureDict("llm")
    ELSE [origin |-> "llm", keys |-> r.keys, okFalse |-> FALSE]

\* Every result one invocation of an LLM strategy can have, by whether the
\* API key is set.
GenResults ==
    [impl \in {"gemini", "openai"}, hasKey \in BOOLEAN |->
        {[kind |-> r.kind,
          value |-> IF r.kind = "raised" THEN EmptyDict ELSE DictOf(r)] :
            r \in {generate_suggestions(impl, hasKey, outs) :
                     outs \in [1..(max_retries + 1) -> ProviderOutcomes]}}]

(***************************************************************************)
(* The process's set-up: which LLM modules import, which API keys the       *)
(* environment holds, and the LLM_MODEL variable.                           *)
(***************************************************************************)
ModelEnv == {"unset", "gemini-1.5-flash"}

Setups ==
    {[gemini_import |-> TRUE, openai_import |-> FALSE,
      GEMINI_API_KEY |-> k, OPENAI_API_KEY |-> FALSE, LLM_MODEL |-> m] :
        k \in BOOLEAN, m \in ModelEnv}
    \cup {[gemini_import |-> FALSE, openai_import |-> TRUE,
           GEMINI_API_KEY |-> FALSE, OPENAI_API_KEY |-> k,
           LLM_MODEL |-> m] : k \in BOOLEAN, m \in ModelEnv}
    \cup {[gemini_import |-> FALSE, openai_import |-> FALSE,
           GEMINI_API_KEY |-> FALSE, OPENAI_API_KEY |-> FALSE,
           LLM_MODEL |-> m] : m \in ModelEnv}

\* audit_views.py, lines 23-27: generate_suggestions, or None.
ViewGenerator(s) == IF s.gemini_import THEN "gemini" ELSE "none"

\* sitemap_crawler.py, lines 15-21.
CrawlGenerator(s) ==
    IF s.gemini_import THEN "gemini"
    ELSE IF s.openai_import THEN "openai"
    ELSE "none"

HasKey(s, impl) ==
    IF impl = "gemini" THEN s.GEMINI_API_KEY ELSE s.OPENAI_API_KEY

\* What calling the imported generate_suggestions can give.
CallResults(s, impl) == GenResults[impl, HasKey(s, impl)]

(***************************************************************************)
(* Environment variables read at call time.                                 *)
(***************************************************************************)
CacheDaysEnv == {"unset", "1"}

DefaultCacheDays == 7

\* int(os.getenv("LLM_CACHE_DAYS", "7")), 7 when that raises
ttl_days(e) == IF e = "1" THEN 1 ELSE DefaultCacheDays

(***************************************************************************)
(* The state: the persisted records (models.py), the clock, the last        *)
(* response and what the last handler did, and an LLM invocation.           *)
(***************************************************************************)
VARIABLES
    setup,      \* the import-time set-up
    pages,      \* Page rows, in creation order: their urls
    analyses,   \* PageAnalysis rows, in creation order
    history,    \* AuditHistory rows
    now,        \* the clock, in days
    resp,       \* the response of the last request
    last,       \* what the last handler did
    crawl,      \* the running crawl_site_from_sitemap, if any
    llm,        \* an invocation of generate_suggestions
    discovery,  \* a running discovery of page URLs, if any
    audits,     \* single-page audits that run side by side
    scored      \* a document put through the scorers and the combiner

vars ==
    <<setup, pages, analyses, history, now, resp, last, crawl, llm, discovery,
      audits, scored>>

db == <<pages, analyses, history>>

NoTime == -1

\* PageAnalysis.objects.create(...): the llm fields take their defaults.
NewAnalysis(page, score, rule_issues) ==
    [page |-> page, score |-> score, rule_issues |-> Len(rule_issues),
     llm_suggestions |-> EmptyDict, llm_model |-> "",
     llm_generated_at |-> NoTime]

\* The rows of `page` that hold generated suggestions.
Stored(page) ==
    {i \in 1..Len(analyses) :
        /\ analyses[i].page = page
        /\ Truthy(analyses[i].llm_suggestions)
        /\ analyses[i].llm_generated_at # NoTime}

Latest(S) == CHOOSE i \in S : \A j \in S : j <= i

\* Page.objects.create(url=url) in the place of get_or_create.
AlwaysCreate(url) == Append(pages, url)

\* Page.objects.get_or_create(url=url)
get_or_create(url) == IF Contains(pages, url) THEN pages ELSE Append(pages, url)

\* AuditHistory.objects.update_or_create in the place of create: the day's
\* record takes the latest score.
update_or_create_history(page, score) ==
    {h \in history : ~(h.page = page /\ h.recorded_date = now)}
    \cup {[page |-> page, recorded_date |-> now, score |-> score]}

\* audit_views.py, lines 174-183: AuditHistory.objects.create under
\* unique_together ("page", "recorded_date"); recorded_date is the day of the
\* insert, and the IntegrityError of a second record for the day is caught
\* and printed.
create_audit_history(page, score) ==
    IF \E h \in history : h.page = page /\ h.recorded_date = now
    THEN history
    ELSE history \cup {[page |-> page, recorded_date |-> now, score |-> score]}

NoResp == [kind |-> "none"]

CrawlIdle == [pc |-> "idle"]

NoLast == [op |-> "none"]

(***************************************************************************)
(* views/audit_views.py: analyze_url, the single-page flow.                 *)
(***************************************************************************)
\* Lines 66-77: the fetch failed.
FetchFailedResponse(fetch_res) ==
    [kind |-> "error", status |-> 502, error |-> "Failed to fetch",
     details |-> fetch_res.error, url |-> fetch_res.url]

\* Line 199-202, on the row `pa` created by this very request.
use_cache(pa, force_llm, ttl) ==
    /\ Truthy(pa.llm_suggestions)
    /\ pa.llm_generated_at # NoTime
    /\ ~force_llm
    /\ now - pa.llm_generated_at < ttl

\* Lines 209-227: the suggestions of a request that does not use the cache.
\* `called` is the result of generate_suggestions when it is imported.
llm_out(gen, called) ==
    IF gen = "none" THEN None
    ELSE IF called.kind = "raised" THEN None
    ELSE IF Truthy(called.value) /\ called.value.okFalse THEN None
    ELSE called.value

FreshSuggestions(out) ==
    IF out = None THEN WithFallback(generate_suggestions_from_issues)
    ELSE out

\* Line 240: the catch-all of the suggestions flow.
CatchAllSuggestions == generate_suggestions_from_issues

\* Line 231
view_llm_model(e) == IF e = "unset" THEN "fallback-rule-based" ELSE e

\* The Page row made before the fetch is looked at.
AuditFetchFailedAfterPage(url, fetch_res) ==
    /\ crawl.pc = "idle" /\ resp = NoResp
    /\ ~fetch_res.ok
    /\ resp' = FetchFailedResponse(fetch_res)
    /\ last' = [op |-> "audit", fetched |-> FALSE, url |-> url]
    /\ pages' = get_or_create(fetch_res.url)
    /\ UNCHANGED <<analyses, history, now, setup, crawl, llm, discovery,
                   audits, scored>>

AuditFetchFailed(url, fetch_res) ==
    /\ crawl.pc = "idle" /\ resp = NoResp
    /\ ~fetch_res.ok
    /\ resp' = FetchFailedResponse(fetch_res)
    /\ last' = [op |-> "audit", fetched |-> FALSE, url |-> url]
    /\ UNCHANGED <<db, now, setup, crawl, llm, discovery, audits, scored>>

\* Lines 79-242: the fetch succeeded. `called` is what generate_suggestions
\* gives if it is called, `saveFails` whether pa.save raises.
AuditPage(fetch_res, force_llm, cacheEnv, called, saveFails) ==
    /\ crawl.pc = "idle" /\ resp = NoResp
    /\ fetch_res.ok
    /\ Len(analyses) < MaxAnalyses
    /\ LET parsed == parse_page(fetch_res.html)
           basic == run_all_rules(parsed)
           adv == run_advanced_rules(fetch_res.html)
           combined_score == CombinedScore(basic.score, adv.score)
           all_issues == basic.issues \o adv.issues
           page == fetch_res.url
           pa == NewAnalysis(page, combined_score, all_issues)
           ttl == ttl_days(cacheEnv)
           cached == use_cache(pa, force_llm, ttl)
           gen == ViewGenerator(setup)
           out == llm_out(gen, called)
           fresh == FreshSuggestions(out)
           saved == [pa EXCEPT !.llm_suggestions = fresh,
                               !.llm_model = view_llm_model(setup.LLM_MODEL),
                               !.llm_generated_at = now]
           row == IF cached \/ saveFails THEN pa ELSE saved
           shown == IF cached THEN pa.llm_suggestions
                    ELSE IF saveFails THEN CatchAllSuggestions
                    ELSE fresh
           stored == Stored(page)
       IN  /\ pages' = get_or_create(page)
           /\ analyses' = Append(analyses, row)
           /\ history' = create_audit_history(page, combined_score)
           /\ resp' = [kind |-> "result", status |-> 200, url |-> page,
                       score |-> combined_score,
                       llm_suggestions |-> shown]
           /\ last' = [op |-> "audit", fetched |-> TRUE,
                       cache_valid |->
                           /\ stored # {}
                           /\ ~force_llm
                           /\ now - analyses[Latest(stored)].llm_generated_at
                                < ttl,
                       stored_suggestions |->
                           IF stored # {}
                           THEN analyses[Latest(stored)].llm_suggestions
                           ELSE EmptyDict,
                       invoked |->
                           IF cached THEN {}
                           ELSE (IF gen # "none" THEN {"llm"} ELSE {})
                                \cup (IF out = None \/ saveFails
                                      THEN {"rule"} ELSE {}),
                       rule_based |-> ~cached /\ (out = None \/ saveFails)]
    /\ UNCHANGED <<now, setup, crawl, llm, discovery, audits, scored>>

\* POST {"url": url} with ?force_llm=...
Audit ==
    \/ \E url \in InputURLs : \E fetch_res \in FetchOutcomes(url) :
          AuditFetchFailed(url, fetch_res)
    \/ \E fetch_res \in UNION {FetchOutcomesNow(url) : url \in InputURLs},
          force_llm \in BOOLEAN, cacheEnv \in CacheDaysEnv,

          called \in (IF ViewGenerator(setup) = "none"
                      THEN {[kind |-> "none"]}
                      ELSE CallResults(setup, ViewGenerator(setup))),
          saveFails \in BOOLEAN :
          AuditPage(fetch_res, force_llm, cacheEnv, called, saveFails)

\* return Response(...): the response leaves and the next request is taken.
Respond ==
    /\ resp # NoResp
    /\ resp' = NoResp
    /\ last' = NoLast
    /\ UNCHANGED <<db, now, setup, crawl, llm, discovery, audits, scored>>

\* Time passes.
Tick ==
    /\ now < MaxDay
    /\ now' = now + 1
    /\ UNCHANGED <<db, setup, resp, last, crawl, llm, discovery, audits, scored>>

(***************************************************************************)
(* services/sitemap_crawler.py: crawl_site_from_sitemap, reached through    *)
(* POST {"url": ..., "crawl_site": true}.                                   *)
(***************************************************************************)
\* Lines 208-215 and 225-232
NoPagesResult(d) ==
    [kind |-> "crawl", ok |-> FALSE,
     error |-> IF d.source = "no_sitemaps"
               THEN "No sitemaps found for this domain"
               ELSE "Could not discover pages from sitemap or by crawling",
     pages_analyzed |-> 0, pages |-> <<>>]

\* pages_analyzed as the number of entries, whatever their status.
CrawlResultCountingAll(analyzed_pages) ==
    [kind |-> "crawl", ok |-> TRUE,
     pages_analyzed |-> Len(analyzed_pages),
     pages_failed |->
        Cardinality({i \in 1..Len(analyzed_pages) :
                        analyzed_pages[i].status = "error"}),
     pages |-> analyzed_pages]

\* Lines 303-311
CrawlResult(analyzed_pages) ==
    [kind |-> "crawl", ok |-> TRUE,
     pages_analyzed |->
        Cardinality({i \in 1..Len(analyzed_pages) :
                        analyzed_pages[i].status = "success"}),
     pages_failed |->
        Cardinality({i \in 1..Len(analyzed_pages) :
                        analyzed_pages[i].status = "error"}),
     pages |-> analyzed_pages]

\* Lines 205-235: discovery, for a site and the arguments of the call.
\* `toggle` is whether FORCE_LLM_PER_PAGE reads "true"; line 275 reads it
\* only when force_llm is false.
CrawlStart ==
    /\ crawl.pc = "idle" /\ resp = NoResp
    /\ \E d \in DiscoveryResults, force_llm \in BOOLEAN, toggle \in BOOLEAN :
          /\ force_llm => ~toggle
          /\ Len(analyses) + Len(d.page_urls) <= MaxAnalyses
          /\ IF d.page_urls = <<>>
             THEN /\ resp' = NoPagesResult(d)
                  /\ crawl' = CrawlIdle
                  /\ last' = [op |-> "crawl", max_pages |-> d.max_pages,
                              source |-> d.source, page_urls |-> d.page_urls,
                              faulted |-> <<>>]
             ELSE /\ resp' = NoResp
                  /\ crawl' = [pc |-> "pages", max_pages |-> d.max_pages,
                               source |-> d.source, page_urls |-> d.page_urls,
                               force_llm |-> force_llm, toggle |-> toggle,
                               i |-> 1, analyzed_pages |-> <<>>,
                               faulted |-> <<>>, fetches |-> d.fetches,
                               llm_calls |-> <<>>]
                  /\ last' = [op |-> "crawling"]
    /\ UNCHANGED <<db, now, setup, llm, discovery, audits, scored>>

\* A failure entry under another status word.
ErrorEntryAsFailed(page_url, error) ==
    [url |-> page_url, status |-> "failed", error |-> error]

ErrorEntry(page_url, error) ==
    [url |-> page_url, status |-> "error", error |-> error]

SuccessEntry(fetch_res, score, issues) ==
    [url |-> fetch_res.url, status |-> "success", score |-> score,
     issues_count |-> Len(issues)]

\* Where an exception can leave the per-page pipeline: in parsing or scoring,
\* or in PageAnalysis.objects.create after the Page row is there.
Faults == {"none", "scoring", "create"}

\* Line 294: str(e) of such an exception.
RaisedText == "exception"

\* Line 281
crawl_llm_model(e, current) == IF e = "unset" THEN current ELSE e

\* Lines 274-286: the suggestions the crawl writes on the row it created.
CrawlSuggestions(pa, called, saveFails) ==
    LET out == IF called.kind = "raised" THEN FailureDict("crawl")
               ELSE called.value
    IN  IF saveFails THEN pa
        ELSE [pa EXCEPT !.llm_suggestions = IF Truthy(out) THEN out
                                            ELSE EmptyDict,
                        !.llm_model =
                            crawl_llm_model(setup.LLM_MODEL, pa.llm_model),
                        !.llm_generated_at = now]

\* The generator called whatever the flag and the toggle.
CrawlGateAlways == CrawlGenerator(setup) # "none"

\* Line 275
CrawlGate == CrawlGenerator(setup) # "none" /\ (crawl.force_llm \/ crawl.toggle)

\* What lines 274-286 did for a page: whether generate_suggestions was
\* called, how the call ended, and whether pa.save went through.
NoLlmCall == [invoked |-> FALSE, outcome |-> "none", saved |-> FALSE]

LlmCall(called, saveFails) ==
    [invoked |-> TRUE, outcome |-> called.kind, saved |-> ~saveFails]

\* Lines 236-301: one turn of the loop over page_urls. `faulted` records, per
\* turn, whether the page's fetch failed or its pipeline raised, `fetches` the
\* URLs fetch_html was called with since the crawl began, `llm_calls` what
\* the suggestions step of the turn did.
CrawlPageStep(fetch_res, fault, called, saveFails) ==
    LET page_url == crawl.page_urls[crawl.i]
        reached == fetch_res.ok /\ fault = "none" /\ CrawlGate
        extend(entry) ==
            crawl' = [crawl EXCEPT
                        !.llm_calls =
                            Append(@, IF reached
                                      THEN LlmCall(called, saveFails)
                                      ELSE NoLlmCall),
                        !.i = @ + 1,
                        !.analyzed_pages = Append(@, entry),
                        !.faulted =
                            Append(@, ~fetch_res.ok \/ fault # "none"),
                        !.fetches = Append(@, NormalizeUrl(page_url))]
    IN  IF ~fetch_res.ok
        THEN /\ extend(ErrorEntry(page_url, fetch_res.error))
             /\ UNCHANGED db
        ELSE IF fault = "scoring"
        THEN /\ extend(ErrorEntry(page_url, RaisedText))
             /\ UNCHANGED db
        ELSE IF fault = "create"
        THEN /\ extend(ErrorEntry(page_url, RaisedText))
             /\ pages' = get_or_create(fetch_res.url)
             /\ UNCHANGED <<analyses, history>>
        ELSE LET parsed == parse_page(fetch_res.html)
                 basic == run_all_rules(parsed)
                 pa == NewAnalysis(fetch_res.url, basic.score, basic.issues)
                 row == IF CrawlGate
                        THEN CrawlSuggestions(pa, called, saveFails)
                        ELSE pa
             IN  /\ pages' = get_or_create(fetch_res.url)
                 /\ analyses' = Append(analyses, row)
                 /\ UNCHANGED history
                 /\ extend(SuccessEntry(fetch_res, basic.score, basic.issues))

CrawlPage ==
    /\ crawl.pc = "pages"
    /\ crawl.i <= Len(crawl.page_urls)
    /\ \E fetch_res \in FetchOutcomes(crawl.page_urls[crawl.i]) :
          IF ~fetch_res.ok
          THEN CrawlPageStep(fetch_res, "none", [kind |-> "none"], FALSE)
          ELSE \E fault \in Faults :
                  IF fault # "none" \/ ~CrawlGate
                  THEN CrawlPageStep(fetch_res, fault, [kind |-> "none"],
                                     FALSE)
                  ELSE \E called \in
                            CallResults(setup, CrawlGenerator(setup)),
                          saveFails \in BOOLEAN :
                          CrawlPageStep(fetch_res, fault, called, saveFails)
    /\ UNCHANGED <<now, setup, resp, last, llm, discovery, audits, scored>>

CrawlReturn ==
    /\ crawl.pc = "pages"
    /\ crawl.i > Len(crawl.page_urls)
    /\ resp' = CrawlResult(crawl.analyzed_pages)
    /\ last' = [op |-> "crawl", max_pages |-> crawl.max_pages,
                source |-> crawl.source, page_urls |-> crawl.page_urls,
                faulted |-> crawl.faulted]
    /\ crawl' = CrawlIdle
    /\ UNCHANGED <<db, now, setup, llm, discovery, audits, scored>>

(***************************************************************************)
(* An invocation of an LLM strategy on its own.                             *)
(***************************************************************************)
LlmIdle == [pc |-> "idle"]

ScoredIdle == [pc |-> "idle"]

\* The requests served side by side, each at the start of analyze_url, and,
\* per PageAnalysis row they made, the request that wrote each llm field
\* (0: the field has its default).
Procs == {1, 2}

Unwritten == [llm_suggestions |-> 0, llm_model |-> 0, llm_generated_at |-> 0]

AuditsIdle == [proc |-> [p \in Procs |-> [pc |-> "idle"]], wrote |-> <<>>]

DiscoveryIdle == [pc |-> "idle"]

Init ==
    /\ setup \in Setups
    /\ pages = <<>>
    /\ analyses = <<>>
    /\ history = {}
    /\ now = 0
    /\ resp = NoResp
    /\ last = NoLast
    /\ crawl = CrawlIdle
    /\ llm = LlmIdle
    /\ discovery = DiscoveryIdle
    /\ audits = AuditsIdle
    /\ scored = ScoredIdle

\* Single-page audits as days pass.
Next == Audit \/ Respond \/ Tick

Spec == Init /\ [][Next]_vars

\* Single-page audits and site crawls.
NextCrawl == Audit \/ Respond \/ CrawlStart \/ CrawlPage \/ CrawlReturn

SpecCrawl == Init /\ [][NextCrawl]_vars

CallGenerate ==
    /\ llm.pc = "idle"
    /\ \E impl \in {"gemini", "openai"}, hasKey \in BOOLEAN,
          outs \in [1..(max_retries + 1) -> ProviderOutcomes] :
          llm' = [pc |-> "done", impl |-> impl, hasKey |-> hasKey,
                  outcomes |-> outs,
                  result |-> generate_suggestions(impl, hasKey, outs)]
    /\ UNCHANGED <<db, now, setup, resp, last, crawl, discovery, audits, scored>>

LlmReset ==
    /\ llm.pc = "done"
    /\ llm' = LlmIdle
    /\ UNCHANGED <<db, now, setup, resp, last, crawl, discovery, audits, scored>>

NextLlm == CallGenerate \/ LlmReset

SpecLlm == Init /\ [][NextLlm]_vars

(***************************************************************************)
(* views/audit_views.py: requests of analyze_url served side by side. A     *)
(* request goes from one database statement to the next; the statements of  *)
(* other requests come in between.                                          *)
(***************************************************************************)
SetProc(p, rec) == [audits.proc EXCEPT ![p] = rec]

\* A save that merges into the latest row of the page: suggestions and
\* timestamp always, the model only where none is stored.
SavedMergingIntoLatest(p) ==
    LET me == audits.proc[p]
        pk == CHOOSE i \in 1..Len(analyses) :
                 /\ analyses[i].page = me.page
                 /\ \A j \in 1..Len(analyses) :
                       analyses[j].page = me.page => j <= i
        keep == analyses[pk].llm_model # ""
    IN  [rows |-> [analyses EXCEPT
                     ![pk].llm_suggestions = me.llm_suggestions,
                     ![pk].llm_model = IF keep THEN @ ELSE me.llm_model,
                     ![pk].llm_generated_at = me.llm_generated_at],
         wrote |-> [audits.wrote EXCEPT
                     ![pk].llm_suggestions = p,
                     ![pk].llm_model = IF keep THEN @ ELSE p,
                     ![pk].llm_generated_at = p]]

\* Line 233: pa.save(update_fields=[...]), one UPDATE of the three columns of
\* the row this request created.
Saved(p) ==
    LET me == audits.proc[p]
    IN  [rows |-> [analyses EXCEPT
                     ![me.pk].llm_suggestions = me.llm_suggestions,
                     ![me.pk].llm_model = me.llm_model,
                     ![me.pk].llm_generated_at = me.llm_generated_at],
         wrote |-> [audits.wrote EXCEPT
                     ![me.pk] = [llm_suggestions |-> p, llm_model |-> p,
                                 llm_generated_at |-> p]]]

\* Lines 60-183: fetch, rules, and the Page, PageAnalysis and AuditHistory
\* rows.
AuditBegin(p) ==
    /\ audits.proc[p].pc = "idle"
    /\ Len(analyses) < MaxAnalyses
    /\ \E fetch_res \in UNION {FetchOutcomes(url) : url \in InputURLs} :
          /\ fetch_res.ok
          /\ LET parsed == parse_page(fetch_res.html)
                 basic == run_all_rules(parsed)
                 adv == run_advanced_rules(fetch_res.html)
                 combined_score == CombinedScore(basic.score, adv.score)
                 page == fetch_res.url
                 pa == NewAnalysis(page, combined_score,
                                   basic.issues \o adv.issues)
             IN  /\ pages' = get_or_create(page)
                 /\ analyses' = Append(analyses, pa)
                 /\ history' = create_audit_history(page, combined_score)
                 /\ audits' =
                      [proc |-> SetProc(p, [pc |-> "created", page |-> page,
                                            pk |-> Len(analyses) + 1]),
                       wrote |-> Append(audits.wrote, Unwritten)]
    /\ UNCHANGED <<now, setup, resp, last, crawl, llm, discovery, scored>>

\* Lines 189-232: the cache test on the row of this request, the strategies,
\* and the three fields set on the object in memory.
AuditGenerate(p) ==
    /\ audits.proc[p].pc = "created"
    /\ \E force_llm \in BOOLEAN, cacheEnv \in CacheDaysEnv,
          called \in (IF ViewGenerator(setup) = "none"
                      THEN {[kind |-> "none"]}
                      ELSE CallResults(setup, ViewGenerator(setup))) :
          LET me == audits.proc[p]
              pa == analyses[me.pk]
              fresh == FreshSuggestions(llm_out(ViewGenerator(setup), called))
          IN  audits' =
                [audits EXCEPT !.proc =
                   SetProc(p,
                     IF use_cache(pa, force_llm, ttl_days(cacheEnv))
                     THEN [pc |-> "done", page |-> me.page, pk |-> me.pk]
                     ELSE [pc |-> "generated", page |-> me.page,
                           pk |-> me.pk, llm_suggestions |-> fresh,
                           llm_model |-> view_llm_model(setup.LLM_MODEL),
                           llm_generated_at |-> now])]
    /\ UNCHANGED <<db, now, setup, resp, last, crawl, llm, discovery, scored>>

\* Line 233, or the exception it raises (lines 235-240).
AuditSave(p) ==
    /\ audits.proc[p].pc = "generated"
    /\ LET me == audits.proc[p]
           done == SetProc(p, [pc |-> "done", page |-> me.page, pk |-> me.pk])
       IN  \E saveFails \in BOOLEAN :
              IF saveFails
              THEN /\ audits' = [audits EXCEPT !.proc = done]
                   /\ UNCHANGED analyses
              ELSE /\ analyses' = Saved(p).rows
                   /\ audits' = [proc |-> done, wrote |-> Saved(p).wrote]
    /\ UNCHANGED <<pages, history, now, setup, resp, last, crawl, llm,
                   discovery, scored>>

\* Line 242
AuditEnd(p) ==
    /\ audits.proc[p].pc = "done"
    /\ audits' = [audits EXCEPT !.proc = SetProc(p, [pc |-> "idle"])]
    /\ UNCHANGED <<db, now, setup, resp, last, crawl, llm, discovery, scored>>

NextConc ==
    \/ \E p \in Procs :
          AuditBegin(p) \/ AuditGenerate(p) \/ AuditSave(p) \/ AuditEnd(p)
    \/ Tick

SpecConc == Init /\ [][NextConc]_vars

(***************************************************************************)
(* views/audit_views.py, lines 79-137: the scorers, the combiner and the    *)
(* issue classifier, on one document.                                       *)
(***************************************************************************)
critical_keywords == <<"missing", "no h1", "noindex", "ssl", "https">>

warning_keywords == <<"short", "long", "multiple", "thin", "broken">>

\* The numbers that the messages of the model's documents hold.
H1Counts == 2..3

WordCounts == 0..4

MissingAltCounts == 1..3

BrokenCounts == 1..6

\* `kw in msg_lower`: the messages of the rules whose lower-cased text holds
\* the keyword.
Mentioning(kw) ==
    IF kw = "missing"
    THEN {"Title missing", "Meta description missing", "Missing H1",
          "Missing viewport meta tag for mobile optimization",
          "Missing schema.org structured data markup",
          "Missing Open Graph tags for social media sharing",
          "Missing Twitter Card metadata"}
         \cup {ToString(n) \o " images missing alt" : n \in MissingAltCounts}
    ELSE IF kw = "no h1"
    THEN {"No H1 tag found - critical for crawlability"}
    ELSE IF kw = "noindex"
    THEN {"Page has 'noindex' directive - won't appear in search results"}
    ELSE IF kw \in {"ssl", "https"}
    THEN {"Website not using HTTPS (SSL certificate)"}
    ELSE IF kw = "short"
    THEN {"Title too short", "Meta description short",
          "Content is too short for good readability scoring",
          "Many very short paragraphs - structure content better"}
    ELSE IF kw = "long"
    THEN {"Title too long", "Meta description long",
          "Sentences are too long (avg " \o ToString(LongAverage)
             \o " words) - reduce for better readability"}
    ELSE IF kw = "multiple"
    THEN {"Multiple H1 tags (" \o ToString(n) \o ")" : n \in H1Counts}
         \cup {"Multiple H1 tags (" \o ToString(n)
                 \o ") - crawlers expect one main H1" : n \in H1Counts}
    ELSE IF kw = "thin"
    THEN {"Thin content (" \o ToString(n) \o " words)" : n \in WordCounts}
    ELSE IF kw = "broken"
    THEN {"Found " \o ToString(n) \o " potentially broken internal links" :
             n \in BrokenCounts}
    ELSE {}

KeywordsIn(message) ==
    {kw \in Range(critical_keywords) \cup Range(warning_keywords) :
        message \in Mentioning(kw)}

\* The warning keywords looked at first.
SeverityOfWarningFirst(kws) ==
    IF kws \cap Range(warning_keywords) # {} THEN "warning"
    ELSE IF kws \cap Range(critical_keywords) # {} THEN "critical"
    ELSE "info"

\* Lines 116-122, for the keywords a message holds.
SeverityOf(kws) ==
    IF kws \cap Range(critical_keywords) # {} THEN "critical"
    ELSE IF kws \cap Range(warning_keywords) # {} THEN "warning"
    ELSE "info"

\* Lines 103-109. A reshaped issue keeps the message; its code is the
\* message in another spelling, which nothing below reads.
formatted_issues(all_issues) ==
    [i \in 1..Len(all_issues) |-> [message |-> all_issues[i]]]

\* Lines 115-122: the loop over the reshaped issues.
RECURSIVE Categorize(_, _)
Categorize(issues, buckets) ==
    IF issues = <<>> THEN buckets
    ELSE LET issue == Head(issues)
             sev == SeverityOf(KeywordsIn(issue.message))
         IN  Categorize(Tail(issues),
                IF sev = "critical"
                THEN [buckets EXCEPT !.critical = Append(@, issue)]
                ELSE IF sev = "warning"
                THEN [buckets EXCEPT !.warning = Append(@, issue)]
                ELSE [buckets EXCEPT !.info = Append(@, issue)])

top_n == 10

\* Lines 125-133
audit_report(all_issues) ==
    LET formatted == formatted_issues(all_issues)
        b == Categorize(formatted,
                        [critical |-> <<>>, warning |-> <<>>, info |-> <<>>])
    IN  [total_issues |-> Len(formatted),
         critical_count |-> Len(b.critical),
         warnings_count |-> Len(b.warning),
         info_count |-> Len(b.info),
         critical |-> Take(b.critical, top_n),
         warnings |-> Take(b.warning, top_n),
         info |-> Take(b.info, top_n)]

\* The documents put through the scorers: every value of what the basic
\* rules read on an otherwise good page, every value of what the checks of
\* the mark-up read and every value of what the checks of the links and the
\* text read, each on three pages that differ in their H1 count, and the
\* page on which every rule finds fault.
BasicParts ==
    [title_len : {0, 4, 45, 70}, meta_len : {0, 30, 120, 200},
     h1 : {0, 1, 2}, word_count : {2, 550, 900},
     images : {<<>>, <<TRUE, FALSE, TRUE>>, <<TRUE>>, <<FALSE>>}]

MarkupParts ==
    [https : BOOLEAN, viewport : BOOLEAN, body_long : BOOLEAN,
     schemas : {<<>>, <<"typed">>, <<"other">>, <<"none">>,
                <<"typed", "none">>},
     noindex : BOOLEAN, scripts : {2, 21}]

ContentParts ==
    [broken_count : {0, 3, 6}, og : BOOLEAN, twitter : BOOLEAN,
     text : {"short", "no_sentences", "plain", "long_sentences",
             "short_paragraphs", "long_and_choppy"}]

FaultyPage ==
    [title_len |-> 0, meta_len |-> 0, h1 |-> 0, word_count |-> 2,
     images |-> <<FALSE>>, https |-> FALSE, viewport |-> FALSE,
     body_long |-> FALSE, schemas |-> <<>>, noindex |-> TRUE, scripts |-> 21,
     broken_count |-> 6, og |-> FALSE, twitter |-> FALSE, text |-> "short"]

BasicOf(d) ==
    [title_len |-> d.title_len, meta_len |-> d.meta_len, h1 |-> d.h1,
     word_count |-> d.word_count, images |-> d.images]

AdvancedOf(d) ==
    [https |-> d.https, viewport |-> d.viewport, body_long |-> d.body_long,
     schemas |-> d.schemas, noindex |-> d.noindex, scripts |-> d.scripts,
     broken_count |-> d.broken_count, og |-> d.og, twitter |-> d.twitter,
     text |-> d.text]

BarePage ==
    [title_len |-> 0, meta_len |-> 0, h1 |-> 0, word_count |-> 2,
     images |-> <<FALSE>>]

\* The main text has word_count words: 300 words are over 100 characters,
\* and two words make neither a long sentence nor a paragraph of five.
TextFits(d) ==
    /\ d.word_count >= 300 => d.text \notin {"short", "no_sentences"}
    /\ d.word_count < 5 =>
          d.text \in {"short", "no_sentences", "short_paragraphs"}

\* A good page around the basic parts b, with a main text of b's length.
Around(b) ==
    b @@ [AdvancedOf(GoodDoc) EXCEPT
            !.text = IF b.word_count < 5 THEN "short" ELSE "plain"]

Docs ==
    {d \in {Around(b) : b \in BasicParts}
           \cup {m @@ Around(b) :
                    b \in {BarePage, BasicOf(ThinPage), BasicOf(GoodDoc)},
                    m \in MarkupParts \cup ContentParts}
           \cup {FaultyPage} :
        TextFits(d)}


\* Lines 79-137 of analyze_url on one document.
ScorePage ==
    /\ scored.pc = "idle"
    /\ \E doc \in Docs :
          LET parsed == parse_page(doc)
              basic == run_all_rules(parsed)
              advanced == run_advanced_rules(doc)
          IN  scored' =
                IF advanced.kind = "raised"
                THEN [pc |-> "raised", doc |-> doc, basic |-> basic]
                ELSE [pc |-> "done", doc |-> doc, basic |-> basic,
                      advanced |-> advanced,
                      first_pass |-> parsed.issues,
                      parsed_issues |->
                          parsed_issues(parsed, basic.issues,
                                        advanced.issues),

                      combined_score |->
                          CombinedScore(basic.score, advanced.score),
                      audit_report |->
                          audit_report(basic.issues \o advanced.issues)]
    /\ UNCHANGED <<db, now, setup, resp, last, crawl, llm, discovery, audits>>

ScoreReset ==
    /\ scored.pc # "idle"
    /\ scored' = ScoredIdle
    /\ UNCHANGED <<db, now, setup, resp, last, crawl, llm, discovery, audits>>

NextRules == ScorePage \/ ScoreReset

SpecRules == Init /\ [][NextRules]_vars

\* Line 93 on its own, for any two scores the rule sets can return.
Scores == 0..100

Combine ==
    /\ scored.pc = "idle"
    /\ \E score \in Scores, advanced_score \in Scores :
          scored' = [pc |-> "combined", score |-> score,
                     advanced_score |-> advanced_score,
                     combined_score |->
                         CombinedScore(score, advanced_score)]
    /\ UNCHANGED <<db, now, setup, resp, last, crawl, llm, discovery, audits>>

NextCombine == Combine \/ ScoreReset

SpecCombine == Init /\ [][NextCombine]_vars

(***************************************************************************)
(* services/crawler.py, lines 72-78: the images of parse_page.              *)
(***************************************************************************)
\* urljoin(base_url, src) for the base https://ex.com/a and the sources of
\* the model: an absolute one, one from the root of the site, one beside
\* the page.
urljoin(base_url, src) ==
    IF src = "https://cdn.ex.com/c.png" THEN src
    ELSE IF src \in {"/b.png", "/lazy.png"} THEN "https://ex.com" \o src
    ELSE "https://ex.com/" \o src

\* The img elements of the model; "" is an attribute left out or empty.
ImgElements ==
    [src : {"", "a.png", "/b.png", "https://cdn.ex.com/c.png"},
     data_src : {"", "/lazy.png"},
     alt : {"", " ", "a chart"}]

MaxImgs == 2

ImgLists == UNION {[1..n -> ImgElements] : n \in 0..MaxImgs}

\* img.get("src") or img.get("data-src") or ""
SrcOf(img) == IF img.src # "" THEN img.src ELSE img.data_src

\* (img.get("alt") or "").strip()
Strip(alt) == IF alt = " " THEN "" ELSE alt

\* Lines 73-78
ParseImages(imgs, base_url) ==
    [k \in 1..Len(imgs) |->
        [src |-> IF SrcOf(imgs[k]) # "" THEN urljoin(base_url, SrcOf(imgs[k]))
                 ELSE "",
         alt |-> Strip(imgs[k].alt)]]

ParseImgs ==
    /\ scored.pc = "idle"
    /\ \E imgs \in ImgLists :
          scored' = [pc |-> "parsed", imgs |-> imgs,
                     images |-> ParseImages(imgs, PageA)]
    /\ UNCHANGED <<db, now, setup, resp, last, crawl, llm, discovery, audits>>

NextParse == ParseImgs \/ ScoreReset

SpecParse == Init /\ [][NextParse]_vars

(***************************************************************************)
(* services/analyzer_suggestions.py, lines 28-52: the improved title and    *)
(* meta description of generate_suggestions_from_issues, by their lengths.  *)
(***************************************************************************)
\* The texts the function appends.
TitleQualifier == " | Your Complete Guide"
MetaFromTitle == " - Learn more about this topic in our comprehensive guide."
MetaFiller == " Discover more insights and best practices."
Ellipsis == "..."

\* len(s[:n])
SliceLen(len, n) == Min(len, n)

\* Lines 34-40: len(improved_title) for a title of title_len characters.
improved_title(title_len) ==
    IF title_len < 30 THEN title_len + Len(TitleQualifier)
    ELSE IF title_len > 60 THEN SliceLen(title_len, 57) + Len(Ellipsis)
    ELSE title_len

\* Lines 43-52: len(improved_meta) for a title and a meta description of
\* these lengths.
improved_meta(title_len, meta_len) ==
    IF meta_len = 0 THEN title_len + Len(MetaFromTitle)
    ELSE IF meta_len < 50 THEN meta_len + Len(MetaFiller)
    ELSE IF meta_len > 160 THEN SliceLen(meta_len, 157) + Len(Ellipsis)
    ELSE meta_len

\* Lengths of titles and meta descriptions around the thresholds of the
\* function and of the rule scorer.
TitleLens == {0, 4, 29, 30, 45, 60, 61, 70, 102, 103, 120}
MetaLens == {0, 30, 49, 50, 120, 160, 161, 200}

SuggestFromIssues ==
    /\ scored.pc = "idle"
    /\ \E title_len \in TitleLens, meta_len \in MetaLens :
          scored' = [pc |-> "suggested",
                     title_len |-> title_len, meta_len |-> meta_len,
                     improved_title |-> improved_title(title_len),
                     improved_meta_description |->
                         improved_meta(title_len, meta_len)]
    /\ UNCHANGED <<db, now, setup, resp, last, crawl, llm, discovery, audits>>

NextSuggest == SuggestFromIssues \/ ScoreReset

SpecSuggest == Init /\ [][NextSuggest]_vars



(***************************************************************************)
(* services/sitemap_crawler.py: the discovery of crawl_site_from_sitemap,   *)
(* lines 205-232, one turn of a loop at a time.                             *)
(***************************************************************************)
Discovered(d, source, page_urls) ==
    [pc |-> "done", site |-> d.site, max_pages |-> d.max_pages,
     st |-> d.st, bfs |-> d.bfs, source |-> source, page_urls |-> page_urls]

\* Lines 206-218, and lines 121-123 of _fetch_all_urls_from_sitemaps, for a
\* site and a max_pages among those given.
DiscoverStartOn(sites, args) ==
    /\ discovery.pc = "idle"
    /\ \E site \in sites, max_pages \in args :
          LET sitemap_urls == _find_sitemaps(site)
              d == [pc |-> "sitemaps", site |-> site,
                    max_pages |-> max_pages,
                    st |-> FetchAllStart(sitemap_urls),
                    bfs |-> BfsStart(Root), source |-> "", page_urls |-> <<>>]
          IN  discovery' = IF sitemap_urls = <<>>
                           THEN Discovered(d, "no_sitemaps", <<>>)
                           ELSE d
    /\ UNCHANGED <<db, now, setup, resp, last, crawl, llm, audits, scored>>

DiscoverStart == DiscoverStartOn(DiscoverSites, DiscoverArgs)

\* Lines 125-149
SitemapTurn ==
    /\ discovery.pc = "sitemaps"
    /\ FetchAllContinues(discovery.st, discovery.max_pages)
    /\ discovery' =
          [discovery EXCEPT
              !.st = FetchAllStep(discovery.site, @, discovery.max_pages)]
    /\ UNCHANGED <<db, now, setup, resp, last, crawl, llm, audits, scored>>

\* Lines 151 and 218-223
SitemapsDone ==
    /\ discovery.pc = "sitemaps"
    /\ ~FetchAllContinues(discovery.st, discovery.max_pages)
    /\ LET page_urls == FetchAllResult(discovery.st, discovery.max_pages)
       IN  discovery' = IF page_urls # <<>>
                        THEN Discovered(discovery, "sitemap", page_urls)
                        ELSE [discovery EXCEPT !.pc = "bfs"]
    /\ UNCHANGED <<db, now, setup, resp, last, crawl, llm, audits, scored>>

\* Lines 165-194
BfsTurn ==
    /\ discovery.pc = "bfs"
    /\ BfsContinues(discovery.bfs, BfsCap(discovery.max_pages))
    /\ discovery' = [discovery EXCEPT !.bfs = BfsStep(discovery.site, @)]
    /\ UNCHANGED <<db, now, setup, resp, last, crawl, llm, audits, scored>>

\* Lines 197 and 225-232
BfsDone ==
    /\ discovery.pc = "bfs"
    /\ ~BfsContinues(discovery.bfs, BfsCap(discovery.max_pages))
    /\ discovery' =
          Discovered(discovery, "bfs", discovery.bfs.discovered_urls)
    /\ UNCHANGED <<db, now, setup, resp, last, crawl, llm, audits, scored>>

NextDiscover ==
    DiscoverStart \/ SitemapTurn \/ SitemapsDone \/ BfsTurn \/ BfsDone

SpecDiscover == Init /\ [][NextDiscover]_vars

\* Sites whose sitemaps name themselves and each other, with pages that link
\* in circles or in a chain.
LoopDocs ==
    {FailDoc,
     XmlDoc(<<>>, <<Sm1, PageA>>),
     XmlDoc(<<Sm1, SmGz>>, <<>>),
     XmlDoc(<<SmMain, "", Sm1>>, <<PageB>>)}

LoopSites ==
    {[robots |-> [ok |-> FALSE, sitemaps |-> <<>>], docs |-> d, html |-> g] :
        d \in [{SmMain, Sm1} -> LoopDocs], g \in SiteGraphs \cup {DeepGraph}}

DiscoverLoopStart == DiscoverStartOn(LoopSites, DiscoverArgs)

NextDiscoverFair ==
    DiscoverLoopStart \/ SitemapTurn \/ SitemapsDone \/ BfsTurn \/ BfsDone

\* The loops run on: a request ends with an answer or at its timeout (lines
\* 133 and 174), and nothing else holds a turn back.
SpecDiscoverFair ==
    /\ Init /\ [][NextDiscoverFair]_vars
    /\ WF_vars(SitemapTurn) /\ WF_vars(SitemapsDone)
    /\ WF_vars(BfsTurn) /\ WF_vars(BfsDone)



(***************************************************************************)
(* The claims.                                                              *)
(***************************************************************************)
\* C1: when an audit of a page finds stored suggestions of that page that
\* are younger than the TTL and no force flag is set, it returns the stored
\* suggestions and invokes neither the LLM nor the rule-based strategy.
C1_CacheReuse ==
    (last.op = "audit" /\ last.fetched /\ last.cache_valid)
        => /\ last.invoked = {}
           /\ resp.llm_suggestions = last.stored_suggestions

\* C2: a crawl that found page URLs returns one entry per page URL, in the
\* order of the URLs, whatever happened to each page, and the entry of a
\* page whose fetch failed or whose pipeline raised has status "error", the
\* page's URL and an error text; while the crawl runs it has one entry per
\* URL it has been through.
C2_EntryPerPageUrl ==
    /\ crawl.pc = "pages" =>
          /\ Len(crawl.analyzed_pages) = crawl.i - 1
          /\ Len(crawl.faulted) = crawl.i - 1
    /\ (resp.kind = "crawl" /\ resp.ok) =>
          /\ Len(resp.pages) = Len(last.page_urls)
          /\ Len(last.faulted) = Len(last.page_urls)
          /\ \A i \in 1..Len(resp.pages) :
                IF last.faulted[i]
                THEN /\ resp.pages[i].status = "error"
                     /\ resp.pages[i].url = last.page_urls[i]
                     /\ "error" \in DOMAIN resp.pages[i]
                ELSE resp.pages[i].status = "success"

\* A crawl of two pages of which the first faulted and the second did not.
C2_Witness ==
    /\ resp.kind = "crawl" /\ resp.ok
    /\ Len(resp.pages) = 2
    /\ last.faulted = <<TRUE, FALSE>>

\* C3: a crawl returns ok=false exactly when the sitemaps gave no page URL
\* and the BFS fallback gave none either, and then pages is empty and
\* pages_analyzed is 0; otherwise it returns ok=true with
\* pages_analyzed + pages_failed = len(pages).
C3_OkIffDiscovered ==
    resp.kind = "crawl" =>
        /\ ~resp.ok <=> (last.source = "bfs" /\ last.page_urls = <<>>)
        /\ ~resp.ok => (resp.pages = <<>> /\ resp.pages_analyzed = 0)
        /\ resp.ok =>
              resp.pages_analyzed + resp.pages_failed = Len(resp.pages)

\* A crawl in which every page failed.
C3_Witness ==
    /\ resp.kind = "crawl" /\ resp.ok
    /\ resp.pages_analyzed = 0
    /\ resp.pages_failed = 2

\* C4: the page URLs handed to the per-page pipeline are at most max_pages,
\* and at most min(50, max_pages) when they come from the BFS fallback.
C4_AtMostMaxPages ==
    discovery.pc = "done" =>
        /\ Len(discovery.page_urls) <= discovery.max_pages
        /\ discovery.source = "bfs" =>
              Len(discovery.page_urls) <= Min(50, discovery.max_pages)

\* The fallback stopped at 50 pages under a max_pages of 51.
C4_Witness ==
    /\ discovery.pc = "done"
    /\ discovery.source = "bfs"
    /\ discovery.max_pages = 51
    /\ Len(discovery.page_urls) = 50

\* C5: in every step, no two Page rows have the same URL afterwards, the
\* snapshots there were are all still there and unchanged, a single-page
\* audit whose fetch succeeded and a crawled page that succeeded add exactly
\* one snapshot, of their page, and every other step adds none.
C5_Step ==
    /\ \A i, j \in 1..Len(pages') : pages'[i] = pages'[j] => i = j
    /\ Len(analyses') >= Len(analyses)
    /\ SubSeq(analyses', 1, Len(analyses)) = analyses
    /\ IF crawl.pc = "idle" /\ crawl'.pc = "idle"
          /\ last'.op = "audit" /\ last'.fetched
       THEN /\ Len(analyses') = Len(analyses) + 1
            /\ analyses'[Len(analyses')].page = resp'.url
            /\ resp'.url \in Range(pages')
       ELSE IF crawl.pc = "pages" /\ crawl'.pc = "pages"
               /\ crawl'.analyzed_pages[crawl.i].status = "success"
       THEN /\ Len(analyses') = Len(analyses) + 1
            /\ analyses'[Len(analyses')].page =
                  crawl'.analyzed_pages[crawl.i].url
            /\ crawl'.analyzed_pages[crawl.i].url \in Range(pages')
       ELSE analyses' = analyses

C5_OneSnapshotPerRun == [][C5_Step]_vars

\* A crawl added a second snapshot to a page that an audit had made.
C5_Witness ==
    /\ resp.kind = "crawl" /\ resp.pages_analyzed = 1
    /\ Len(analyses) = 2
    /\ analyses[1].page = analyses[2].page
    /\ analyses[1].score # analyses[2].score
    /\ Len(pages) = 1

\* C6: a single-page audit whose fetch failed answers 502 with error,
\* details and the URL it tried to fetch, and leaves the Page, PageAnalysis
\* and AuditHistory rows as they were.
C6_Step ==
    (last'.op = "audit" /\ ~last'.fetched) =>
        /\ resp'.kind = "error" /\ resp'.status = 502
        /\ {"error", "details", "url"} \subseteq DOMAIN resp'
        /\ resp'.url = NormalizeUrl(last'.url)
        /\ UNCHANGED db

C6_FetchFailureChangesNothing == [][C6_Step]_vars

\* A fetch failure answered after an earlier audit had stored its rows.
C6_Witness ==
    /\ last.op = "audit" /\ ~last.fetched
    /\ last.url = "ex.com/a"
    /\ resp.status = 502
    /\ Len(analyses) = 1

\* C7: the response of a single-page audit whose fetch succeeded has
\* llm_suggestions, and suggestions that the rule-based strategy produced
\* carry fallback.
C7_RuleBasedCarriesFallback ==
    (last.op = "audit" /\ last.fetched) =>
        /\ "llm_suggestions" \in DOMAIN resp
        /\ last.rule_based => "fallback" \in resp.llm_suggestions.keys

\* C8: no snapshot stores a tagged failure object as its suggestions, and no
\* response shows one.
C8_NoFailureStored ==
    /\ \A i \in 1..Len(analyses) :
          ~IsTaggedFailure(analyses[i].llm_suggestions)
    /\ resp.kind = "result" => ~IsTaggedFailure(resp.llm_suggestions)

\* C9: generate_suggestions does not raise; without credentials it returns
\* a tagged failure object; and what it returns is a tagged failure object or
\* has the five keys, with suggestions a list.
C9_NeverRaises ==
    llm.pc = "done" =>
        /\ llm.result.kind # "raised"
        /\ ~llm.hasKey => llm.result.kind = "failure"
        /\ llm.result.kind = "dict" =>
              /\ RequiredKeys \subseteq llm.result.keys
              /\ IsList(llm.result.sugg)

\* C10: every <sitemap><loc> text of a document that was fetched and parsed
\* has been put in the queue of sitemaps and is not among the collected page
\* URLs; and an index document without <url> entries whose N <sitemap><loc>
\* entries all have a text parses to those N texts.
C10_IndexEntriesEnqueued ==
    /\ discovery.pc # "idle" =>
          /\ discovery.st.index_entries \subseteq discovery.st.enqueued
          /\ discovery.st.index_entries \cap Range(discovery.st.all_urls) = {}
    /\ \A doc \in SitemapDocs :
          (doc.status = "xml" /\ doc.urls = <<>> /\ doc.sitemaps # <<>>
             /\ "" \notin Range(doc.sitemaps))
          => _parse_sitemap_xml(doc) = doc.sitemaps

\* The page URLs that the urlsets list which are reached from `queue` through
\* sitemap indices, breadth first, in document order, each one once. A
\* document with <sitemap><loc> entries is an index, any other a urlset.
AppendNew(acc, urls) ==
    LET keep == {i \in 1..Len(urls) :
                    /\ ~Contains(acc, urls[i])
                    /\ \A j \in 1..(i - 1) : urls[j] # urls[i]}
        nth(k) == CHOOSE i \in keep : Cardinality({j \in keep : j <= i}) = k
    IN  acc \o [k \in 1..Cardinality(keep) |-> urls[nth(k)]]

RECURSIVE ListedPages(_, _, _, _)
ListedPages(site, queue, seen, acc) ==
    IF queue = <<>> THEN acc
    ELSE LET u == Head(queue)
             doc == DocAt(site, u)
         IN  IF u \in seen \/ doc.status # "xml"
             THEN ListedPages(site, Tail(queue), seen \cup {u}, acc)
             ELSE IF doc.sitemaps # <<>>
             THEN ListedPages(site,
                              Tail(queue) \o NonEmptyTexts(doc.sitemaps),
                              seen \cup {u}, acc)
             ELSE ListedPages(site, Tail(queue), seen \cup {u},
                              AppendNew(acc, NonEmptyTexts(doc.urls)))

\* C11: when the urlsets reached from the initial sitemaps list no more than
\* max_urls distinct page URLs, _fetch_all_urls_from_sitemaps returns those
\* page URLs, each once, in breadth-first sitemap order and document order.
C11_ListedPagesReturned ==
    discovery.pc \in {"bfs", "done"} =>
        LET listed == ListedPages(discovery.site,
                                  _find_sitemaps(discovery.site), {}, <<>>)
        IN  Cardinality(Range(listed)) <= discovery.max_pages
              => FetchAllResult(discovery.st, discovery.max_pages) = listed

\* C12: a turn of the traversal on a sitemap that does not answer with a 200
\* or whose body is not XML adds no URL and leaves the rest of the queue as
\* it was; a traversal that ends below max_urls has asked for every sitemap
\* it was given or has queued; and a traversal without a page URL is
\* followed by the BFS fallback.
C12_Step ==
    /\ (discovery.pc = "sitemaps" /\ discovery'.pc = "sitemaps"
        /\ Head(discovery.st.to_process) \notin discovery.st.visited_sitemaps
        /\ DocAt(discovery.site, Head(discovery.st.to_process)).status
              \in {"fail", "malformed"})
       => /\ discovery'.st.all_urls = discovery.st.all_urls
          /\ discovery'.st.to_process = Tail(discovery.st.to_process)
          /\ discovery'.st.enqueued = discovery.st.enqueued
    /\ (discovery.pc = "sitemaps" /\ discovery'.pc # "sitemaps")
       => (discovery'.pc = "bfs"
             <=> FetchAllResult(discovery.st, discovery.max_pages) = <<>>)

C12_Visited ==
    (discovery.pc \in {"bfs", "done"}
       /\ Len(discovery.st.all_urls) < discovery.max_pages)
    => (Range(_find_sitemaps(discovery.site)) \cup discovery.st.enqueued)
          \subseteq discovery.st.visited_sitemaps

C12_BadSitemapSkipped == [][C12_Step]_vars /\ []C12_Visited

\* Page URLs came from sitemap1.xml after sitemap.xml was not XML and two
\* other sitemaps did not answer.
C12_Witness ==
    /\ discovery.pc = "done" /\ discovery.source = "sitemap"
    /\ DocAt(discovery.site, SmMain) = MalformedDoc
    /\ discovery.st.requests = <<SmMain, SmIndex, SmDir, Sm1>>
    /\ discovery.page_urls = <<PageA, PageB>>

\* C13: every URL the BFS fallback has asked for is the root at depth 0, or
\* is at a depth of at most 2 and was a link, on the root's domain, of a page
\* fetched earlier at the depth before.
C13_DepthAndDomain ==
    discovery.pc \in {"bfs", "done"} =>
        LET fetched == discovery.bfs.fetched
        IN  \A k \in 1..Len(fetched) :
              LET u == fetched[k][1]
                  d == fetched[k][2]
              IN  /\ d <= 2
                  /\ k = 1 => (u = Root /\ d = 0)
                  /\ k > 1 =>
                       \E j \in 1..(k - 1) :
                          LET parent == PageAt(discovery.site, fetched[j][1])
                          IN  /\ parent.ok
                              /\ fetched[j][2] = d - 1
                              /\ \E l \in Range(parent.links) :
                                    /\ SameDomain(l)
                                    /\ StripFragment(l) = u

\* The fallback ended on the chain of pages after three fetches: the page
\* three hops away and the link to another domain were not asked for.
C13_Witness ==
    /\ discovery.pc = "done" /\ discovery.source = "bfs"
    /\ discovery.site \in DeepSites
    /\ discovery.max_pages = 51
    /\ discovery.bfs.fetched = <<<<Root, 0>>, <<PageA, 1>>, <<PageB, 2>>>>
    /\ discovery.bfs.queue = <<>>

\* C14: the list the BFS fallback returns has at most the max_pages it was
\* given entries, and no URL twice.
C14_DistinctUpToMaxPages ==
    (discovery.pc = "done" /\ discovery.source = "bfs") =>
        LET urls == discovery.bfs.discovered_urls
        IN  /\ Len(urls) <= BfsCap(discovery.max_pages)
            /\ \A i, j \in 1..Len(urls) : urls[i] = urls[j] => i = j

\* C15: within one crawl, fetch_html is called at most once with any URL,
\* the calls of the discovery included, and once with each page URL that
\* went through the loop.
C15_OneFetchPerUrl ==
    crawl.pc = "pages" =>
        /\ \A i, j \in 1..Len(crawl.fetches) :
              crawl.fetches[i] = crawl.fetches[j] => i = j
        /\ \A k \in 1..(crawl.i - 1) :
              Cardinality({n \in 1..Len(crawl.fetches) :
                              crawl.fetches[n] = crawl.page_urls[k]}) = 1

\* C16: in a crawl, generate_suggestions is called for a page only under the
\* force flag or the environment toggle, and a page whose call returned a
\* failure or raised, or whose save raised, has a "success" entry with the
\* score and the number of issues that the rules gave for the page.
C16_LlmStepSwallowed ==
    crawl.pc = "pages" =>
        \A k \in 1..Len(crawl.llm_calls) :
            LET c == crawl.llm_calls[k]
                e == crawl.analyzed_pages[k]
            IN  /\ c.invoked => (crawl.force_llm \/ crawl.toggle)
                /\ (c.invoked /\ (c.outcome \in {"failure", "raised"}
                                    \/ ~c.saved))
                   => /\ e.status = "success"
                      /\ LET rules == run_all_rules(parse_page(Web[e.url]))
                         IN  /\ e.score = rules.score
                             /\ e.issues_count = Len(rules.issues)

\* A crawl of two pages: for the first the generator returned a failure,
\* for the second the save raised.
C16_Witness ==
    /\ crawl.pc = "pages"
    /\ Len(crawl.llm_calls) = 2
    /\ crawl.llm_calls[1].outcome = "failure"
    /\ crawl.llm_calls[2].outcome = "dict" /\ ~crawl.llm_calls[2].saved
    /\ crawl.analyzed_pages[1].status = "success"
    /\ crawl.analyzed_pages[2].status = "success"

\* C17: however the statements of two audits follow one another, the three
\* llm fields of every snapshot are all unwritten or were all written by the
\* same audit.
C17_WholeRecordWrites ==
    \A i \in 1..Len(audits.wrote) :
        /\ audits.wrote[i].llm_suggestions = audits.wrote[i].llm_model
        /\ audits.wrote[i].llm_model = audits.wrote[i].llm_generated_at

\* Two audits of one page: the second has saved its suggestions between the
\* first's generation and the first's save.
C17_Witness ==
    /\ audits.proc[1].pc = "generated" /\ audits.proc[1].pk = 1
    /\ audits.proc[2].pc = "done" /\ audits.proc[2].pk = 2
    /\ audits.proc[1].page = audits.proc[2].page
    /\ Len(audits.wrote) = 2
    /\ audits.wrote[2].llm_suggestions = 2
    /\ audits.wrote[1] = Unwritten
    /\ audits.proc[1].llm_generated_at < analyses[2].llm_generated_at

\* The severity the classification rule gives a message: critical when it
\* holds a critical keyword, otherwise warning when it holds a warning
\* keyword, otherwise info.
C18_Severity(message) ==
    IF \E i \in 1..Len(critical_keywords) :
          critical_keywords[i] \in KeywordsIn(message)
    THEN "critical"
    ELSE IF \E i \in 1..Len(warning_keywords) :
               warning_keywords[i] \in KeywordsIn(message)
    THEN "warning"
    ELSE "info"

\* The issues of one severity, in issue order.
C18_Bucket(issues, severity) ==
    LET keep == {i \in 1..Len(issues) :
                    C18_Severity(issues[i].message) = severity}
        nth(k) == CHOOSE i \in keep : Cardinality({j \in keep : j <= i}) = k
    IN  [k \in 1..Cardinality(keep) |-> issues[nth(k)]]

\* C18: every reshaped issue is in exactly one of the critical, warning and
\* info buckets, a critical keyword deciding before a warning keyword (a
\* message holding keywords of both sets is critical), so the three counts
\* add up to total_issues; each reported list is the first at most 10
\* issues of its bucket in issue order, and each count is the length of the
\* whole bucket.
C18_Buckets ==
    /\ \A c \in Range(critical_keywords), w \in Range(warning_keywords) :
          /\ SeverityOf({c, w}) = "critical"
          /\ SeverityOf({c}) = "critical"
          /\ SeverityOf({w}) = "warning"
    /\ SeverityOf({}) = "info"
    /\ scored.pc = "done" =>
          LET issues == formatted_issues(scored.basic.issues
                                           \o scored.advanced.issues)
              report == scored.audit_report
              critical == C18_Bucket(issues, "critical")
              warning == C18_Bucket(issues, "warning")
              info == C18_Bucket(issues, "info")
          IN  /\ report.total_issues = Len(issues)
              /\ report.critical_count = Len(critical)
              /\ report.warnings_count = Len(warning)
              /\ report.info_count = Len(info)
              /\ report.critical_count + report.warnings_count
                    + report.info_count = report.total_issues
              /\ report.critical = SubSeq(critical, 1, Min(10, Len(critical)))
              /\ report.warnings = SubSeq(warning, 1, Min(10, Len(warning)))
              /\ report.info = SubSeq(info, 1, Min(10, Len(info)))

\* A page with eleven critical issues, of which ten are listed, next to
\* warning and info issues.
C18_Witness ==
    /\ scored.pc = "done"
    /\ scored.audit_report.critical_count = 11
    /\ Len(scored.audit_report.critical) = 10
    /\ scored.audit_report.warnings_count > 0
    /\ scored.audit_report.info_count > 0
    /\ scored.audit_report.total_issues > 11

\* The fixed maximum of each category of the two breakdowns.
C19_Maximum ==
    [title |-> 20, meta_description |-> 20, h1 |-> 15, content |-> 20,
     images |-> 10, mobile_usability |-> 20, schema_markup |-> 15,
     ssl_security |-> 10, crawlability |-> 15, broken_links |-> 10,
     social_tags |-> 10, readability |-> 10]

C19_InRange(breakdown, names) ==
    /\ Len(breakdown) = Len(names)
    /\ \A k \in 1..Len(breakdown) :
          /\ breakdown[k].name = names[k]
          /\ breakdown[k].points \in 0..C19_Maximum[names[k]]

\* C19: for every page every rule returns a result, each category of the
\* basic and of the advanced breakdown has between 0 and its fixed maximum
\* points, and each of the two totals is between 0 and 100.
C19_RulesTotal ==
    /\ scored.pc # "raised"
    /\ scored.pc = "done" =>
          /\ C19_InRange(scored.basic.breakdown,
                <<"title", "meta_description", "h1", "content", "images">>)
          /\ C19_InRange(scored.advanced.breakdown,
                <<"mobile_usability", "schema_markup", "ssl_security",
                  "crawlability", "broken_links", "social_tags",
                  "readability">>)
          /\ scored.basic.score \in 0..100
          /\ scored.advanced.score \in 0..100

\* C20: for basic and advanced scores between 0 and 100 the combined score
\* is between 0 and 100, and raising either score never lowers it.
C20_CombinedBounded ==
    scored.pc = "combined" =>
        /\ scored.combined_score \in 0..100
        /\ \A higher \in scored.score..100 :
              CombinedScore(higher, scored.advanced_score)
                 >= scored.combined_score
        /\ \A higher \in scored.advanced_score..100 :
              CombinedScore(scored.score, higher) >= scored.combined_score

\* The scores 7 and 57 combined, where the sum in double arithmetic falls
\* short of 37.
C20_Witness ==
    /\ scored.pc = "combined"
    /\ scored.score = 7 /\ scored.advanced_score = 57
    /\ scored.combined_score = 36

\* C21: a page whose robots meta tag says noindex has crawlability score 0
\* whatever its script and H1 counts; any other page has 15, less 5 for more
\* than 20 scripts, less 10 for no H1 or else less 5 for several H1s, and
\* never less than 0.
C21_NoindexZeroes ==
    scored.pc = "done" =>
        LET doc == scored.doc
            entry == scored.advanced.breakdown[4]
            scripts == IF doc.scripts > 20 THEN 5 ELSE 0
            headings == IF doc.h1 = 0 THEN 10 ELSE IF doc.h1 > 1 THEN 5 ELSE 0
        IN  /\ entry.name = "crawlability"
            /\ entry.points >= 0
            /\ doc.noindex => entry.points = 0
            /\ ~doc.noindex => entry.points = 15 - scripts - headings

\* A noindex page with more than 20 scripts and no H1, scored 0.
C21_Witness ==
    /\ scored.pc = "done"
    /\ scored.doc.noindex /\ scored.doc.scripts > 20 /\ scored.doc.h1 = 0
    /\ scored.advanced.breakdown[4].points = 0

\* C22: the images of a parsed page are the img elements that have a src or
\* a data-src, in order, and each has a non-empty src made absolute against
\* the base URL.
C22_SourcelessSkipped ==
    scored.pc = "parsed" =>
        /\ Len(scored.images)
              = Cardinality({k \in 1..Len(scored.imgs) :
                                scored.imgs[k].src # ""
                                   \/ scored.imgs[k].data_src # ""})
        /\ \A k \in 1..Len(scored.images) : scored.images[k].src # ""

\* A turn of the traversal asks for at most one sitemap, and for none when
\* max_urls page URLs are collected.
C23_Step ==
    (discovery.pc = "sitemaps" /\ discovery'.pc \in {"sitemaps", "bfs", "done"}
        /\ discovery'.st.requests # discovery.st.requests)
    => /\ Len(discovery.st.all_urls) < discovery.max_pages
       /\ discovery'.st.requests
             = Append(discovery.st.requests, Head(discovery.st.to_process))

C23_Once ==
    discovery.pc \in {"sitemaps", "bfs", "done"} =>
        \A i, j \in 1..Len(discovery.st.requests) :
            discovery.st.requests[i] = discovery.st.requests[j] => i = j

\* C23: within one traversal no sitemap URL is asked for twice, also when
\* sitemap indices name each other or a sitemap is queued several times, and
\* nothing is asked for once max_urls page URLs are collected.
C23_NoRefetch == [][C23_Step]_vars /\ []C23_Once

\* Two sitemap indices that name each other, and sitemap1.xml queued both as
\* a conventional path and as an index entry: the traversal ended with each
\* asked for once.
C23_Witness ==
    /\ discovery.pc \in {"bfs", "done"}
    /\ DocAt(discovery.site, SmMain) = XmlDoc(<<Sm1, SmGz>>, <<>>)
    /\ DocAt(discovery.site, Sm1) = XmlDoc(<<SmMain, "", Sm1>>, <<PageB>>)
    /\ {SmMain, Sm1} \subseteq Range(discovery.st.requests)
    /\ discovery.st.to_process = <<>>
    /\ discovery.max_pages > 1


\* C24: the issues parse_page emitted are still in the page's `issues`, in
\* their order and ahead of what the rule scorers added, when the suggestions
\* are generated.
C24_FirstPassKept ==
    scored.pc = "done" =>
        /\ Len(scored.parsed_issues) >= Len(scored.first_pass)
        /\ \A k \in 1..Len(scored.first_pass) :
              scored.parsed_issues[k] = scored.first_pass[k]

\* Whether a call of the provider gave a text that holds a JSON object.
C25_GaveObject(o) ==
    /\ o.kind = "text"
    /\ o.form # "garbage"
    /\ o.value.type = "dict"

\* C25: one invocation of generate_suggestions calls the provider at most
\* twice; it calls a second time only after a first call that raised or gave
\* no JSON object, with exactly one backoff wait between the two calls, and
\* never after a call that gave a JSON object.
C25_AtMostOneRetry ==
    llm.pc = "done" =>
        LET r == llm.result
            called == {k \in 1..Len(r.log) : r.log[k] # "sleep"}
        IN  /\ r.calls = Cardinality(called)
            /\ r.calls <= 2
            /\ r.calls < 2 => (r.sleeps = 0 /\ Len(r.log) = r.calls)
            /\ r.calls = 2 =>
                  /\ ~C25_GaveObject(llm.outcomes[1])
                  /\ r.sleeps = 1
                  /\ Len(r.log) = 3 /\ r.log[2] = "sleep"
                  /\ r.log[1] = llm.outcomes[1].kind
                  /\ r.log[3] = llm.outcomes[2].kind
            /\ (r.calls >= 1 /\ C25_GaveObject(llm.outcomes[1])) =>
                  (r.calls = 1 /\ r.kind = "dict")

\* A first call that gave no JSON, a wait, and a second call that gave an
\* object.
C25_Witness ==
    /\ llm.pc = "done"
    /\ llm.outcomes[1] = [kind |-> "text", form |-> "garbage"]
    /\ llm.result.kind = "dict"
    /\ llm.result.log = <<"text", "sleep", "text">>

\* C26: the list _find_sitemaps returns has no URL twice; it starts with the
\* Sitemap: entries of a robots.txt that was served, in file order, goes on
\* with the conventional paths that are not among them, in their fixed
\* order, and so holds all four conventional paths and is never empty.
C26_RobotsThenConventional ==
    discovery.pc # "idle" =>
        LET found == _find_sitemaps(discovery.site)
            robots == discovery.site.robots
            entries == IF robots.ok THEN AppendNew(<<>>, robots.sitemaps)
                       ELSE <<>>
        IN  /\ \A i, j \in 1..Len(found) : found[i] = found[j] => i = j
            /\ found = AppendNew(entries, common_paths)
            /\ Range(common_paths) \subseteq Range(found)
            /\ found # <<>>

\* C27: a discovery that has begun comes to its end, through the sitemap
\* traversal and, where that gave no page URL, through the BFS fallback.
C27_DiscoveryEnds ==
    (discovery.pc \in {"sitemaps", "bfs"}) ~> (discovery.pc = "done")

\* Two sitemap indices that name themselves and each other and give no page
\* URL, then a fallback crawl of pages that link back to the root: the
\* discovery is done.
C27_Witness ==
    /\ discovery.pc = "done" /\ discovery.source = "bfs"
    /\ DocAt(discovery.site, SmMain) = XmlDoc(<<SmMain, "", Sm1>>, <<PageB>>)
    /\ DocAt(discovery.site, Sm1) = XmlDoc(<<SmMain, "", Sm1>>, <<PageB>>)
    /\ Len(discovery.bfs.fetched) >= 2

\* The sum of the points of a breakdown.
C28_Sum(breakdown) ==
    LET upto[k \in 0..Len(breakdown)] ==
            IF k = 0 THEN 0 ELSE upto[k - 1] + breakdown[k].points
    IN  upto[Len(breakdown)]

C29_OnePerDay ==
    \A g, h \in history :
        (g.page = h.page /\ g.recorded_date = h.recorded_date) => g = h

\* No step removes or alters a history record, and an audit of a page that
\* has a record for the day adds none, stores its snapshot and answers with
\* its result.
C29_Step ==
    /\ history \subseteq history'
    /\ (resp = NoResp /\ resp' # NoResp /\ last'.fetched) =>
          /\ resp'.kind = "result" /\ resp'.status = 200
          /\ analyses' = Append(analyses, analyses'[Len(analyses')])
          /\ analyses'[Len(analyses')].page = resp'.url
          /\ analyses'[Len(analyses')].score = resp'.score
          /\ (\E h \in history : h.page = resp'.url /\ h.recorded_date = now)
                => history' = history

\* C29: there is at most one audit-history record per page per day; an audit
\* of a page that already has a record for the day leaves the record as it
\* is, so the day's first score is kept, and the audit still stores its
\* analysis snapshot and returns its result.
C29_FirstScoreOfTheDayKept == [][C29_Step]_vars /\ []C29_OnePerDay

\* Two audits of one page on one day with different scores: one history
\* record, holding the first score.
C29_Witness ==
    /\ Len(analyses) = 2
    /\ analyses[1].page = analyses[2].page
    /\ analyses[1].score # analyses[2].score
    /\ history = {[page |-> analyses[1].page, recorded_date |-> now,
                   score |-> analyses[1].score]}
    /\ resp # NoResp /\ resp.kind = "result" /\ resp.score = analyses[2].score

\* C30: the rule-based strategy returns an improved_title of at most 60
\* characters and an improved_meta_description of at most 160 characters.
C30_WithinLimits ==
    scored.pc = "suggested" =>
        /\ scored.improved_title <= 60
        /\ scored.improved_meta_description <= 160
====
